---- MODULE Spec2Model ----
(***************************************************************************)
(* Sparse-vector top-k search: posting lists, the posting-list iterator,   *)
(* the inverted index (RAM and mmap), the search context with              *)
(* max-next-weight pruning, and the storage facade with its three query    *)
(* paths.                                                                  *)
(*                                                                         *)
(* Conventions.  Option<T> is a sequence of length 0 (None) or 1 (Some).   *)
(* Vec<T> is a sequence; Rust's 0-based position i is position i+1 here.   *)
(* f32 weights and scores are small integers (exactly representable in     *)
(* f32, so sums and products are exact); f32::NEG_INFINITY is an integer   *)
(* below every weight and score of the model.                              *)
(***************************************************************************)
EXTENDS Integers, Sequences, FiniteSets, TLC

VARIABLES
    \* SparseVectorStorage (storage.rs)
    vectors, mutable_index, immutable_index, storage_status,
    \* the last call of SparseVectorStorage::add and its outcome
    last_add,
    \* SearchContext (search_context.rs) and the index it borrows
    inverted_index, postings_iterators, query, top, result_queue, pc, results, skipped,
    \* the record ids of the candidates advance returned in this search
    advanced,
    \* the calls of prune_longest_posting_list made in this search: the
    \* min_score passed and the length of the result queue at the call
    prune_calls,
    \* PostingBuilder (posting.rs)
    builder_elements, built, debug_assertions,
    \* PostingListIterator (posting.rs)
    iter, returned,
    \* InvertedIndexMmap (inverted_index_mmap.rs), its directory and its caller
    inverted_index_ram, index_data, index_config, mmap_index, got, mmap_status,
    little_endian,
    \* FixedLengthPriorityQueue (fixed_length_pq.rs) and the values pushed on it
    pq, pushed_values,
    \* SparseVector::dot_product (vector.rs): its operands and its result
    dot_a, dot_b, dot_result,
    \* two SearchContexts over one borrowed index
    shared_index, ctxs,
    \* a convert_and_save in progress and the saves completed before
    save_pc, completed,
    \* InvertedIndexBuilder (inverted_index.rs, inverted_index_ram.rs): its
    \* map, and the last build with the map it was built from
    builder_postings, built_index,
    \* load_SPLADE_embeddings (storage.rs): the lines of the file it reads,
    \* and whether serde_json is built with its preserve_order feature
    jsonl, preserve_order

storage_vars == <<vectors, mutable_index, immutable_index, storage_status, last_add>>
search_vars  == <<inverted_index, postings_iterators, query, top, result_queue, pc, results,
                 skipped, advanced, prune_calls>>
posting_vars == <<builder_elements, built, debug_assertions>>
iter_vars    == <<iter, returned>>
mmap_vars    == <<inverted_index_ram, index_data, index_config, mmap_index, got,
                 mmap_status, little_endian>>
queue_vars   == <<pq, pushed_values>>
dot_vars     == <<dot_a, dot_b, dot_result>>
ctx_vars     == <<shared_index, ctxs>>
save_vars    == <<save_pc, completed>>
builder_vars == <<builder_postings, built_index>>
loader_vars  == <<jsonl, preserve_order>>
more_vars    == <<queue_vars, dot_vars, ctx_vars, save_vars, builder_vars, loader_vars>>
vars == <<storage_vars, search_vars, posting_vars, iter_vars, mmap_vars, more_vars>>

----------------------------------------------------------------------------
(* Bounds of the model *)

\* record ids of a searched index are 0..MaxRecordId
MaxRecordId == 2
\* the most posting elements, over all dimensions, of a searched index
MaxIndexEntries == 3
\* dimension ids are 0..MaxDimId
MaxDimId == 2
\* the largest K of a query
MaxK == 2
\* finite weights are -1 and 1..MaxWeight
MaxWeight == 2
\* ids handed to a PostingBuilder / held by an iterated list are 0..MaxPostingId
MaxPostingId == 3
\* the most add calls on one PostingBuilder
MaxBuilderAdds == 3

(* Program constants *)

\* f32::NEG_INFINITY: below every finite weight and score of the model
NEG_INFINITY == -1000
\* u32::MAX (4294967295 in the program): above every record id of the model
U32_MAX == 2147483647

RecordIds  == 0..MaxRecordId
DimIds     == 0..MaxDimId
Weights    == {-1} \cup (1..MaxWeight)
PostingIds == 0..MaxPostingId

None == <<>>
Some(x) == <<x>>
IsSome(o) == Len(o) = 1
Unwrap(o) == o[1]

\* f32::max on the model's values
F32Max(a, b) == IF a >= b THEN a ELSE b

\* the elements of a finite set of integers in ascending order
SortedSeq(S) ==
    [i \in 1..Cardinality(S) |-> CHOOSE x \in S : Cardinality({y \in S : y < x}) = i - 1]

Reverse(s) == [i \in 1..Len(s) |-> s[Len(s) + 1 - i]]

----------------------------------------------------------------------------
(* posting.rs: PostingElement, PostingBuilder *)

PostingElement(id, weight, max_next_weight) ==
    [id |-> id, weight |-> weight, max_next_weight |-> max_next_weight]

\* PostingBuilder::add: push an element whose max_next_weight is still -inf
PostingBuilder_add(elements, id, weight) ==
    Append(elements, PostingElement(id, weight, NEG_INFINITY))

\* Vec::sort_by_key(|e| e.id): a stable sort, here by insertion
RECURSIVE SortById(_)
SortById(s) ==
    IF Len(s) = 0 THEN <<>>
    ELSE LET sorted == SortById(SubSeq(s, 1, Len(s) - 1))
             e == s[Len(s)]
             \* e goes after every element whose id is <= e.id
             k == Cardinality({i \in 1..Len(sorted) : sorted[i].id <= e.id})
         IN SubSeq(sorted, 1, k) \o <<e>> \o SubSeq(sorted, k + 1, Len(sorted))

\* the debug-only duplicate check of build
HasDuplicateId(sorted) ==
    \E i \in 2..Len(sorted) : sorted[i].id = sorted[i - 1].id

\* the right-to-left max_next_weight pass of build, from position i down to 1
RECURSIVE CalcMaxNextWeightMutant(_, _, _)
CalcMaxNextWeightMutant(elements, i, max_next_weight) ==
    IF i = 0 THEN elements
    ELSE LET m == F32Max(max_next_weight, elements[i].weight)
         IN CalcMaxNextWeightMutant(
                [elements EXCEPT ![i].max_next_weight = m], i - 1, m)

RECURSIVE CalcMaxNextWeight(_, _, _)
CalcMaxNextWeight(elements, i, max_next_weight) ==
    IF i = 0 THEN elements
    ELSE CalcMaxNextWeight(
             [elements EXCEPT ![i].max_next_weight = max_next_weight],
             i - 1,
             F32Max(max_next_weight, elements[i].weight))

\* PostingBuilder::build: the built list, or a panic when the debug check fires
PostingBuilder_build_unsorted(elements, debug) ==
    [panicked |-> FALSE,
     elements |-> CalcMaxNextWeight(elements, Len(elements), NEG_INFINITY)]

PostingBuilder_build(elements, debug) ==
    LET sorted == SortById(elements)
    IN IF debug /\ HasDuplicateId(sorted)
       THEN [panicked |-> TRUE, elements |-> <<>>]
       ELSE [panicked |-> FALSE,
             elements |-> CalcMaxNextWeight(sorted, Len(sorted), NEG_INFINITY)]

\* PostingList::from / from_records: add every record, then build
RECURSIVE AddAll(_, _)
AddAll(elements, records) ==
    IF Len(records) = 0 THEN elements
    ELSE AddAll(PostingBuilder_add(elements, records[1][1], records[1][2]), Tail(records))

PostingList_from(records, debug) == PostingBuilder_build(AddAll(<<>>, records), debug)

----------------------------------------------------------------------------
(* posting.rs: PostingListIterator *)

PostingListIterator_new(posting_list) ==
    [posting_list |-> posting_list, current_index |-> 0]

\* peek: the element at the cursor, if any
peek(it) ==
    IF it.current_index < Len(it.posting_list)
    THEN Some(it.posting_list[it.current_index + 1])
    ELSE None

\* next returning the element without moving the cursor
next_without_moving(it) ==
    IF it.current_index < Len(it.posting_list)
    THEN [it |-> it, element |-> Some(it.posting_list[it.current_index + 1])]
    ELSE [it |-> it, element |-> None]

\* next: the element at the cursor, and the iterator moved one past it
next(it) ==
    IF it.current_index < Len(it.posting_list)
    THEN [it |-> [it EXCEPT !.current_index = @ + 1],
          element |-> Some(it.posting_list[it.current_index + 1])]
    ELSE [it |-> it, element |-> None]

len_left(it) == Len(it.posting_list) - it.current_index

\* slice::binary_search_by(|e| e.id.cmp(&id)) over a slice s (0-based result):
\* the loop of the standard library
RECURSIVE BinarySearchLoop(_, _, _, _)
BinarySearchLoop(s, id, left, right) ==
    IF left >= right THEN [found |-> FALSE, index |-> left]
    ELSE LET size == right - left
             mid == left + (size \div 2)
             e == s[mid + 1]
         IN IF e.id < id THEN BinarySearchLoop(s, id, mid + 1, right)
            ELSE IF e.id > id THEN BinarySearchLoop(s, id, left, mid)
            ELSE [found |-> TRUE, index |-> mid]

binary_search_by(s, id) == BinarySearchLoop(s, id, 0, Len(s))

\* skip_to: binary search of the remainder; the cursor moves to the element
\* found, or to the insertion point
skip_to_mutant(it, id) ==
    IF it.current_index >= Len(it.posting_list) THEN [it |-> it, element |-> None]
    ELSE LET rest == SubSeq(it.posting_list, it.current_index + 1, Len(it.posting_list))
             r == binary_search_by(rest, id)
         IN IF r.found
            THEN [it |-> [it EXCEPT !.current_index = r.index],
                  element |-> Some(it.posting_list[r.index + 1])]
            ELSE [it |-> [it EXCEPT !.current_index = @ + r.index], element |-> None]

skip_to(it, id) ==
    IF it.current_index >= Len(it.posting_list) THEN [it |-> it, element |-> None]
    ELSE LET rest == SubSeq(it.posting_list, it.current_index + 1, Len(it.posting_list))
             r == binary_search_by(rest, id)
             moved == [it EXCEPT !.current_index = @ + r.index]
         IN IF r.found
            THEN [it |-> moved, element |-> Some(moved.posting_list[moved.current_index + 1])]
            ELSE [it |-> moved, element |-> None]

skip_to_end(it) ==
    [it |-> [it EXCEPT !.current_index = Len(it.posting_list)], element |-> None]

----------------------------------------------------------------------------
(* vector.rs: SparseVector *)

SparseVector_new(indices, weights) == [indices |-> indices, weights |-> weights]

\* the sparse vectors over the model's dimensions with weights in W and at most
\* n entries, indices strictly ascending
SparseVectors(W, n) ==
    UNION { { SparseVector_new(SortedSeq(S), w) : w \in [1..Cardinality(S) -> W] } :
              S \in {T \in SUBSET DimIds : Cardinality(T) <= n} }

\* the queries of a search: any dimensions, each with weight -1 or 1
Queries == SparseVectors({-1, 1}, MaxDimId + 1)

----------------------------------------------------------------------------
(* fixed_length_pq.rs: FixedLengthPriorityQueue<ScoredCandidate>.  The binary  *)
(* heap is held as the sequence of its elements in descending score order; *)
(* the heap's root (the smallest score) is the last one.                   *)

ScoredCandidate(score, vector_id) == [score |-> score, vector_id |-> vector_id]

FixedLengthPriorityQueue_new(length) == [heap |-> <<>>, length |-> length]

\* BinaryHeap::push
HeapPush(heap, value) ==
    LET k == Cardinality({i \in 1..Len(heap) : heap[i].score >= value.score})
    IN SubSeq(heap, 1, k) \o <<value>> \o SubSeq(heap, k + 1, Len(heap))

\* push without the capacity: every value is kept
push_unbounded(queue, value) == [queue EXCEPT !.heap = HeapPush(@, value)]

\* push keeping the smaller value at capacity
push_keep_smallest(queue, value) ==
    IF Len(queue.heap) < queue.length
    THEN [queue EXCEPT !.heap = HeapPush(@, value)]
    ELSE LET x == queue.heap[1]
         IN IF value.score < x.score
            THEN [queue EXCEPT !.heap = HeapPush(Tail(@), value)]
            ELSE queue

\* push: below capacity the value is kept; at capacity it replaces the
\* smallest kept value when that one is strictly smaller
push(queue, value) ==
    IF Len(queue.heap) < queue.length
    THEN [queue EXCEPT !.heap = HeapPush(@, value)]
    ELSE LET x == queue.heap[Len(queue.heap)]
         IN IF x.score < value.score
            THEN [queue EXCEPT !.heap = HeapPush(SubSeq(@, 1, Len(@) - 1), value)]
            ELSE queue

\* top: the smallest kept value
queue_top(queue) ==
    IF Len(queue.heap) = 0 THEN None ELSE Some(queue.heap[Len(queue.heap)])

queue_len(queue) == Len(queue.heap)

\* into_vec: the kept values by descending score
into_vec(queue) == queue.heap

----------------------------------------------------------------------------
(* inverted_index.rs: InvertedIndex and its builder.  An index is the dense *)
(* vector of its posting lists; a builder is the map DimId -> PostingList. *)

InsertAt(s, i, x) == SubSeq(s, 1, i) \o <<x>> \o SubSeq(s, i + 1, Len(s))

\* InvertedIndex::get: Vec::get by dimension id
InvertedIndex_get(postings, id) ==
    IF id < Len(postings) THEN Some(postings[id + 1]) ELSE None

\* the loop of build: Vec::insert of each posting at its key, keys ascending
RECURSIVE InsertPostings(_, _, _)
InsertPostings(postings, keys, map) ==
    IF Len(keys) = 0 THEN postings
    ELSE InsertPostings(InsertAt(postings, keys[1], map[keys[1]]), Tail(keys), map)

\* InvertedIndexBuilder::build
InvertedIndexBuilder_build(map) ==
    LET keys == SortedSeq(DOMAIN map)
        last_key == IF Len(keys) = 0 THEN 0 ELSE keys[Len(keys)]
        postings == [i \in 1..last_key |-> <<>>]
    IN InsertPostings(postings, keys, map)

----------------------------------------------------------------------------
(* search_context.rs: SearchContext *)

\* an iterator that forgets its offset into the query weights
IndexedPostingListIteratorNoOffset(it, query_weight_offset) ==
    [posting_list_iterator |-> it, query_weight_offset |-> 0]

IndexedPostingListIterator(it, query_weight_offset) ==
    [posting_list_iterator |-> it, query_weight_offset |-> query_weight_offset]

\* Vec::sort_by_key(|i| i.posting_list_iterator.len_left()): stable, ascending
RECURSIVE SortByLenLeft(_)
SortByLenLeft(s) ==
    IF Len(s) = 0 THEN <<>>
    ELSE LET sorted == SortByLenLeft(SubSeq(s, 1, Len(s) - 1))
             e == s[Len(s)]
             k == Cardinality({i \in 1..Len(sorted) :
                     len_left(sorted[i].posting_list_iterator)
                         <= len_left(e.posting_list_iterator)})
         IN SubSeq(sorted, 1, k) \o <<e>> \o SubSeq(sorted, k + 1, Len(sorted))

\* sort_posting_lists_by_len: longest first
sort_posting_lists_by_len(its) == Reverse(SortByLenLeft(its))

\* the loop of SearchContext::new over the query's (offset, dimension id) pairs
RECURSIVE CollectIterators(_, _, _)
CollectIterators(q, offset, index) ==
    IF offset >= Len(q.indices) THEN <<>>
    ELSE LET posting == InvertedIndex_get(index, q.indices[offset + 1])
             rest == CollectIterators(q, offset + 1, index)
         IN IF IsSome(posting)
            THEN <<IndexedPostingListIterator(
                       PostingListIterator_new(Unwrap(posting)), offset)>> \o rest
            ELSE rest

\* SearchContext::new
SearchContext_new(q, k, index) ==
    [postings_iterators |-> sort_posting_lists_by_len(CollectIterators(q, 0, index)),
     query |-> q,
     top |-> k,
     result_queue |-> FixedLengthPriorityQueue_new(k)]

\* first pass of advance: the smallest peeked record id, from u32::MAX
RECURSIVE MinRecordId(_, _, _)
MinRecordId(its, i, min_record_id) ==
    IF i > Len(its) THEN min_record_id
    ELSE LET e == peek(its[i].posting_list_iterator)
         IN MinRecordId(its, i + 1,
                IF IsSome(e) /\ Unwrap(e).id < min_record_id
                THEN Unwrap(e).id ELSE min_record_id)

Found(its) == \E i \in 1..Len(its) : IsSome(peek(its[i].posting_list_iterator))

\* the iterator at position i takes part in this advance
AtMin(its, i, min_record_id) ==
    LET e == peek(its[i].posting_list_iterator)
    IN IsSome(e) /\ Unwrap(e).id = min_record_id

\* the score summed over every iterator that peeks an element
RECURSIVE ScoreOfAllPeeked(_, _, _, _)
ScoreOfAllPeeked(its, q, i, min_record_id) ==
    IF i = 0 THEN 0
    ELSE ScoreOfAllPeeked(its, q, i - 1, min_record_id)
         + IF IsSome(peek(its[i].posting_list_iterator))
           THEN Unwrap(peek(its[i].posting_list_iterator)).weight
                    * q.weights[its[i].query_weight_offset + 1]
           ELSE 0

\* second pass of advance: the score summed in iterator order
RECURSIVE ScoreAtMin(_, _, _, _)
ScoreAtMin(its, q, i, min_record_id) ==
    IF i = 0 THEN 0
    ELSE ScoreAtMin(its, q, i - 1, min_record_id)
         + IF AtMin(its, i, min_record_id)
           THEN Unwrap(peek(its[i].posting_list_iterator)).weight
                    * q.weights[its[i].query_weight_offset + 1]
           ELSE 0

\* advance moving only the first iterator that stands at the minimum id
advance_first_only(its, q) ==
    IF ~Found(its) THEN [candidate |-> None, postings_iterators |-> its]
    ELSE LET min_record_id == MinRecordId(its, 1, U32_MAX)
             first == CHOOSE i \in 1..Len(its) :
                          /\ AtMin(its, i, min_record_id)
                          /\ \A j \in 1..(i - 1) : ~AtMin(its, j, min_record_id)
         IN [candidate |->
                 Some(ScoredCandidate(ScoreAtMin(its, q, Len(its), min_record_id),
                                      min_record_id)),
             postings_iterators |->
                 [its EXCEPT ![first].posting_list_iterator = next(@).it]]

\* advance: the next candidate and the iterators after it
advance(its, q) ==
    IF ~Found(its) THEN [candidate |-> None, postings_iterators |-> its]
    ELSE LET min_record_id == MinRecordId(its, 1, U32_MAX)
         IN [candidate |->
                 Some(ScoredCandidate(ScoreAtMin(its, q, Len(its), min_record_id),
                                      min_record_id)),
             postings_iterators |->
                 [i \in 1..Len(its) |->
                     IF AtMin(its, i, min_record_id)
                     THEN [its[i] EXCEPT
                              !.posting_list_iterator = next(@).it]
                     ELSE its[i]]]

\* the head list is always skipped to its end
SkipTargetAlwaysEnd(its) == U32_MAX

\* the id the head list is skipped to
SkipTarget(its) ==
    IF Len(its) = 1 THEN U32_MAX
    ELSE LET e == peek(its[2].posting_list_iterator)
         IN IF IsSome(e) THEN Unwrap(e).id ELSE U32_MAX

\* the largest contribution the head list is taken to make
ScoreContribution(its, q) ==
    LET element == Unwrap(peek(its[1].posting_list_iterator))
        max_weight_from_list == F32Max(element.weight, element.max_next_weight)
    IN max_weight_from_list * q.weights[its[1].query_weight_offset + 1]

\* the head list is skipped by this call
Prunes(its, q, min_score) ==
    /\ IsSome(peek(its[1].posting_list_iterator))
    /\ ScoreContribution(its, q) < min_score

\* prune_longest_posting_list: the iterators after the call
prune_longest_posting_list(its, q, min_score) ==
    IF Prunes(its, q, min_score)
    THEN [its EXCEPT ![1].posting_list_iterator = skip_to(@, SkipTarget(its)).it]
    ELSE its

\* the loop of search, from a state of the context to the drained result
RECURSIVE SearchLoop(_, _, _, _)
SearchLoop(its, q, k, queue) ==
    LET a == advance(its, q)
    IN IF ~IsSome(a.candidate) THEN into_vec(queue)
       ELSE LET pushed == push(queue, Unwrap(a.candidate))
            IN IF queue_len(pushed) = k
               THEN SearchLoop(
                        prune_longest_posting_list(
                            a.postings_iterators, q, Unwrap(queue_top(pushed)).score),
                        q, k, pushed)
               ELSE SearchLoop(a.postings_iterators, q, k, pushed)

\* SearchContext::search
search(ctx) ==
    SearchLoop(sort_posting_lists_by_len(ctx.postings_iterators),
               ctx.query, ctx.top, ctx.result_queue)

----------------------------------------------------------------------------
(* vector.rs: SparseVector::dot_product *)

\* the merge loop moving the cursor of other when self is behind
RECURSIVE DotProductLoopWrongCursor(_, _, _, _)
DotProductLoopWrongCursor(a, b, i, j) ==
    IF ~(i < Len(a.indices) /\ j < Len(b.indices)) THEN 0
    ELSE IF a.indices[i + 1] < b.indices[j + 1] THEN DotProductLoopWrongCursor(a, b, i, j + 1)
    ELSE IF a.indices[i + 1] > b.indices[j + 1] THEN DotProductLoopWrongCursor(a, b, i, j + 1)
    ELSE a.weights[i + 1] * b.weights[j + 1] + DotProductLoopWrongCursor(a, b, i + 1, j + 1)

\* the merge loop of dot_product from cursors i, j (0-based)
RECURSIVE DotProductLoop(_, _, _, _)
DotProductLoop(a, b, i, j) ==
    IF ~(i < Len(a.indices) /\ j < Len(b.indices)) THEN 0
    ELSE IF a.indices[i + 1] < b.indices[j + 1] THEN DotProductLoop(a, b, i + 1, j)
    ELSE IF a.indices[i + 1] > b.indices[j + 1] THEN DotProductLoop(a, b, i, j + 1)
    ELSE a.weights[i + 1] * b.weights[j + 1] + DotProductLoop(a, b, i + 1, j + 1)

dot_product(a, b) == DotProductLoop(a, b, 0, 0)

----------------------------------------------------------------------------
(* inverted_index_ram.rs: InvertedIndexRam and its builder *)

\* InvertedIndexBuilder::build of inverted_index_ram.rs: last_key + 1 lists,
\* each key's posting at its position, empty placeholders elsewhere
InvertedIndexRamBuilder_build(map) ==
    LET keys == SortedSeq(DOMAIN map)
        last_key == IF Len(keys) = 0 THEN 0 ELSE keys[Len(keys)]
    IN [i \in 1..(last_key + 1) |-> IF (i - 1) \in DOMAIN map THEN map[i - 1] ELSE <<>>]

----------------------------------------------------------------------------
(* mutable_index.rs and storage.rs: MutableSparseVectorIndex and            *)
(* SparseVectorStorage.  The map of the mutable index is a function on     *)
(* every dimension id; a key is in the map when its list is not empty.     *)

MutableSparseVectorIndex_new == [d \in DimIds |-> <<>>]

\* MutableSparseVectorIndex::get
MutableSparseVectorIndex_get(map, index) ==
    IF index \in DOMAIN map /\ Len(map[index]) > 0 THEN Some(map[index]) ELSE None

\* MutableSparseVectorIndex::add: push the record id on the list of every
\* index of the vector, in the order of its indices
RECURSIVE MutableSparseVectorIndex_add(_, _, _)
MutableSparseVectorIndex_add(map, vector_id, indices) ==
    IF Len(indices) = 0 THEN map
    ELSE MutableSparseVectorIndex_add(
             [map EXCEPT ![indices[1]] = Append(@, vector_id)], vector_id, Tail(indices))

\* SparseVectorStorage::add: the storage after the call; the mutable index is
\* updated before the slot is looked at, and an existing slot panics
SparseVectorStorage_add(vecs, map, vector_id, sparse_vector) ==
    LET map2 == MutableSparseVectorIndex_add(map, vector_id, sparse_vector.indices)
    IN IF vector_id < Len(vecs)
       THEN [panicked |-> TRUE, vectors |-> vecs, mutable_index |-> map2]
       ELSE [panicked |-> FALSE,
             vectors |-> [i \in 1..(vector_id + 1) |->
                             IF i <= Len(vecs) THEN vecs[i]
                             ELSE IF i = vector_id + 1 THEN Some(sparse_vector)
                             ELSE None],
             mutable_index |-> map2]

\* SparseVectorStorage::get: the slot, or a panic outside the allocated slots
SparseVectorStorage_get(vecs, vector_id) ==
    IF vector_id < Len(vecs)
    THEN [panicked |-> FALSE, vector |-> vecs[vector_id + 1]]
    ELSE [panicked |-> TRUE, vector |-> None]

\* Iterator::position: the 0-based offset of the first x in s, if any
Position(s, x) ==
    IF \E i \in 1..Len(s) : s[i] = x
    THEN Some((CHOOSE i \in 1..Len(s) : s[i] = x /\ \A j \in 1..(i - 1) : s[j] # x) - 1)
    ELSE None

\* build_immutable_index panics on this record id of the list of `position`
BuildPanics(vecs, position, vec_id) ==
    LET g == SparseVectorStorage_get(vecs, vec_id)
    IN \/ g.panicked
       \/ ~IsSome(g.vector)
       \/ ~IsSome(Position(Unwrap(g.vector).indices, position))

\* the loop taking the first weight of the vector, whatever the offset
RECURSIVE PostingOfFirstWeight(_, _, _)
PostingOfFirstWeight(vecs, position, vector_ids) ==
    IF Len(vector_ids) = 0 THEN <<>>
    ELSE LET n == Len(vector_ids)
             vec_id == vector_ids[n]
             sparse_vector == Unwrap(SparseVectorStorage_get(vecs, vec_id).vector)
         IN PostingBuilder_add(
                PostingOfFirstWeight(vecs, position, SubSeq(vector_ids, 1, n - 1)),
                vec_id, sparse_vector.weights[1])

\* the posting builder of one dimension after the loop over its record ids
RECURSIVE PostingOf(_, _, _)
PostingOf(vecs, position, vector_ids) ==
    IF Len(vector_ids) = 0 THEN <<>>
    ELSE LET n == Len(vector_ids)
             vec_id == vector_ids[n]
             sparse_vector == Unwrap(SparseVectorStorage_get(vecs, vec_id).vector)
             offset == Unwrap(Position(sparse_vector.indices, position))
         IN PostingBuilder_add(PostingOf(vecs, position, SubSeq(vector_ids, 1, n - 1)),
                               vec_id, sparse_vector.weights[offset + 1])

\* SparseVectorStorage::build_immutable_index: the index, or a panic
build_immutable_index(vecs, map, debug) ==
    LET keys == {d \in DOMAIN map : Len(map[d]) > 0}
        panics == \E d \in keys : \E i \in 1..Len(map[d]) : BuildPanics(vecs, d, map[d][i])
    IN IF panics THEN [panicked |-> TRUE, index |-> None]
       ELSE LET lists == [d \in keys |-> PostingBuilder_build(PostingOf(vecs, d, map[d]), debug)]
            IN IF \E d \in keys : lists[d].panicked
               THEN [panicked |-> TRUE, index |-> None]
               ELSE [panicked |-> FALSE,
                     index |-> Some(InvertedIndexRamBuilder_build(
                                        [d \in keys |-> lists[d].elements]))]

\* slice::sort_by(|a, b| OrderedFloat(b.score).cmp(&OrderedFloat(a.score))):
\* stable, by descending score
RECURSIVE SortByScoreDesc(_)
SortByScoreDesc(s) ==
    IF Len(s) = 0 THEN <<>>
    ELSE LET sorted == SortByScoreDesc(SubSeq(s, 1, Len(s) - 1))
             e == s[Len(s)]
             k == Cardinality({i \in 1..Len(sorted) : sorted[i].score >= e.score})
         IN SubSeq(sorted, 1, k) \o <<e>> \o SubSeq(sorted, k + 1, Len(sorted))

\* Iterator::take
Take(s, n) == SubSeq(s, 1, IF n < Len(s) THEN n ELSE Len(s))

\* the candidates of a full scan: every stored vector, in id order
RECURSIVE ScanAll(_, _, _)
ScanAll(vecs, q, n) ==
    IF n = 0 THEN <<>>
    ELSE ScanAll(vecs, q, n - 1)
         \o IF IsSome(vecs[n])
            THEN <<ScoredCandidate(dot_product(q, Unwrap(vecs[n])), n - 1)>>
            ELSE <<>>

\* SparseVectorStorage::query_full_scan
query_full_scan(vecs, limit, q) ==
    Take(SortByScoreDesc(ScanAll(vecs, q, Len(vecs))), limit)

\* the record ids of the posting lists of the query's dimensions, sorted and
\* deduplicated
CandidateIds(map, q) ==
    SortedSeq(UNION { IF IsSome(MutableSparseVectorIndex_get(map, q.indices[i]))
                      THEN {map[q.indices[i]][j] : j \in 1..Len(map[q.indices[i]])}
                      ELSE {} : i \in 1..Len(q.indices) })

\* the candidates without candidates.dedup(): each record id once for every
\* dimension of the query whose list holds it
CandidateIdsNoDedup(map, q) ==
    LET ids == CandidateIds(map, q)
        Count(id) == Cardinality({i \in 1..Len(q.indices) :
                        \E j \in 1..Len(map[q.indices[i]]) : map[q.indices[i]][j] = id})
        RECURSIVE Repeated(_)
        Repeated(i) == IF i = 0 THEN <<>>
                       ELSE Repeated(i - 1) \o [j \in 1..Count(ids[i]) |-> ids[i]]
    IN Repeated(Len(ids))

\* query_mutable_index panics on a candidate that is not in the storage
QueryMutablePanics(vecs, ids) ==
    \E i \in 1..Len(ids) :
        \/ SparseVectorStorage_get(vecs, ids[i]).panicked
        \/ ~IsSome(SparseVectorStorage_get(vecs, ids[i]).vector)

\* SparseVectorStorage::query_mutable_index over the candidates ids: the
\* result, or a panic
QueryMutableOver(vecs, ids, k, q) ==
    IF QueryMutablePanics(vecs, ids)
    THEN [panicked |-> TRUE, results |-> <<>>]
    ELSE [panicked |-> FALSE,
          results |->
              Take(SortByScoreDesc(
                       [i \in 1..Len(ids) |->
                           ScoredCandidate(dot_product(q, Unwrap(vecs[ids[i] + 1])), ids[i])]),
                   k)]

query_mutable_index_no_dedup(vecs, map, k, q) ==
    QueryMutableOver(vecs, CandidateIdsNoDedup(map, q), k, q)

query_mutable_index(vecs, map, k, q) ==
    QueryMutableOver(vecs, CandidateIds(map, q), k, q)

\* SparseVectorStorage::query_immutable_index: the result, or a panic when
\* the immutable index was not built
query_immutable_index(index, k, q) ==
    IF ~IsSome(index) THEN [panicked |-> TRUE, results |-> <<>>]
    ELSE [panicked |-> FALSE, results |-> search(SearchContext_new(q, k, Unwrap(index)))]

----------------------------------------------------------------------------
(* inverted_index_mmap.rs: the file of an InvertedIndexMmap.  The file and  *)
(* its map are the sequence of their bytes; a value is written as the bytes *)
(* of its representation in memory, in the byte order of the build.         *)

\* size_of::<PostingListFileHeader>(): two u64
POSTING_HEADER_SIZE == 16

\* size_of::<PostingElement>(): a u32 and two f32
POSTING_ELEMENT_SIZE == 12

\* an f32 that is none of the weights of the model (NaN among them)
NotAWeight == NEG_INFINITY - 1

\* the bytes of a value in memory, from its little-endian bytes
InMemory(bytes, le) == IF le THEN bytes ELSE Reverse(bytes)

\* the width bytes of the unsigned integer n
UIntBytes(n, width, le) ==
    InMemory([i \in 1..width |-> IF i <= 4 THEN (n \div (256 ^ (i - 1))) % 256 ELSE 0], le)

\* the unsigned integer of the bytes; U32_MAX stands for every value above
\* the offsets and ids of the model
UIntFromBytes(bytes, le) ==
    LET b == InMemory(bytes, le)
    IN IF \E i \in 1..Len(b) : b[i] # 0 /\ (i > 4 \/ (i = 4 /\ b[i] >= 128))
       THEN U32_MAX
       ELSE LET RECURSIVE Value(_)
                Value(i) == IF i > Len(b) \/ i > 4 THEN 0 ELSE b[i] + 256 * Value(i + 1)
            IN Value(1)

\* the four bytes of the f32 holding the integer w, or negative infinity
F32Bytes(w, le) ==
    IF w = 0 THEN InMemory(<<0, 0, 0, 0>>, le)
    ELSE IF w = NEG_INFINITY THEN InMemory(<<0, 0, 128, 255>>, le)
    ELSE LET sign == IF w < 0 THEN 1 ELSE 0
             a == IF w < 0 THEN -w ELSE w
             e == CHOOSE e \in 0..23 : 2 ^ e <= a /\ a < 2 ^ (e + 1)
             mantissa == (a - 2 ^ e) * 2 ^ (23 - e)
             exponent == e + 127
         IN InMemory(<<mantissa % 256,
                       (mantissa \div 256) % 256,
                       (exponent % 2) * 128 + mantissa \div 65536,
                       sign * 128 + exponent \div 2>>, le)

\* the f32 of four bytes, when it is an integer below 2^24 or negative infinity
F32FromBytes(bytes, le) ==
    LET b == InMemory(bytes, le)
        sign == b[4] \div 128
        exponent == (b[4] % 128) * 2 + b[3] \div 128
        mantissa == (b[3] % 128) * 65536 + b[2] * 256 + b[1]
        k == 150 - exponent
    IN IF exponent = 0 /\ mantissa = 0 THEN 0
       ELSE IF exponent = 255 /\ mantissa = 0 /\ sign = 1 THEN NEG_INFINITY
       ELSE IF k < 0 \/ k > 23 \/ (8388608 + mantissa) % (2 ^ k) # 0 THEN NotAWeight
       ELSE (IF sign = 1 THEN -1 ELSE 1) * ((8388608 + mantissa) \div (2 ^ k))

\* transmute_to_u8 of a PostingListFileHeader
HeaderBytes(header, le) ==
    UIntBytes(header.start_offset, 8, le) \o UIntBytes(header.end_offset, 8, le)

\* transmute_from_u8::<PostingListFileHeader>
HeaderFromBytes(bytes, le) ==
    [start_offset |-> UIntFromBytes(SubSeq(bytes, 1, 8), le),
     end_offset |-> UIntFromBytes(SubSeq(bytes, 9, 16), le)]

\* the bytes of one PostingElement
ElementBytes(element, le) ==
    UIntBytes(element.id, 4, le) \o F32Bytes(element.weight, le)
        \o F32Bytes(element.max_next_weight, le)

\* transmute_to_u8_slice of the elements of a posting list
RECURSIVE transmute_to_u8_slice(_, _)
transmute_to_u8_slice(elements, le) ==
    IF Len(elements) = 0 THEN <<>>
    ELSE ElementBytes(elements[1], le) \o transmute_to_u8_slice(Tail(elements), le)

\* transmute_from_u8_to_slice: the PostingElements lying in the bytes
transmute_from_u8_to_slice(bytes, le) ==
    [i \in 1..(Len(bytes) \div POSTING_ELEMENT_SIZE) |->
        LET at == (i - 1) * POSTING_ELEMENT_SIZE
        IN [id |-> UIntFromBytes(SubSeq(bytes, at + 1, at + 4), le),
            weight |-> F32FromBytes(SubSeq(bytes, at + 5, at + 8), le),
            max_next_weight |-> F32FromBytes(SubSeq(bytes, at + 9, at + 12), le)]]

\* mmap[start..start + len(bytes)].copy_from_slice(bytes)
CopyFromSlice(mmap, start, bytes) ==
    [i \in 1..Len(mmap) |->
        IF start < i /\ i <= start + Len(bytes) THEN bytes[i - start] ELSE mmap[i]]

\* InvertedIndexMmap::calculate_file_length
RECURSIVE TotalPostingElementsSize(_)
TotalPostingElementsSize(postings) ==
    IF Len(postings) = 0 THEN 0
    ELSE Len(postings[1]) * POSTING_ELEMENT_SIZE + TotalPostingElementsSize(Tail(postings))

calculate_file_length(postings) ==
    [headers |-> Len(postings) * POSTING_HEADER_SIZE,
     elements |-> TotalPostingElementsSize(postings)]

\* InvertedIndexMmap::create_and_ensure_length: the file after set_len; a
\* file that exists keeps the bytes below the length, new bytes are zero
create_and_ensure_length(file, length) ==
    Some([i \in 1..length |->
             IF IsSome(file) /\ i <= Len(Unwrap(file)) THEN Unwrap(file)[i] ELSE 0])

\* the loop of save_posting_headers from posting list id on
RECURSIVE SavePostingHeadersFrom(_, _, _, _, _)
SavePostingHeadersFrom(mmap, postings, id, elements_offset, le) ==
    IF id >= Len(postings) THEN mmap
    ELSE LET posting_elements_size == Len(postings[id + 1]) * POSTING_ELEMENT_SIZE
             posting_header == [start_offset |-> elements_offset,
                                end_offset |-> elements_offset + posting_elements_size]
         IN SavePostingHeadersFrom(
                CopyFromSlice(mmap, id * POSTING_HEADER_SIZE, HeaderBytes(posting_header, le)),
                postings, id + 1, posting_header.end_offset, le)

\* the loop of save_posting_headers with every list starting where the
\* elements region starts
RECURSIVE SavePostingHeadersSameStart(_, _, _, _, _)
SavePostingHeadersSameStart(mmap, postings, id, elements_offset, le) ==
    IF id >= Len(postings) THEN mmap
    ELSE LET posting_elements_size == Len(postings[id + 1]) * POSTING_ELEMENT_SIZE
             posting_header == [start_offset |-> elements_offset,
                                end_offset |-> elements_offset + posting_elements_size]
         IN SavePostingHeadersSameStart(
                CopyFromSlice(mmap, id * POSTING_HEADER_SIZE, HeaderBytes(posting_header, le)),
                postings, id + 1, elements_offset, le)

save_posting_headers_same_start(mmap, postings, total_posting_headers_size, le) ==
    SavePostingHeadersSameStart(mmap, postings, 0, total_posting_headers_size, le)

\* InvertedIndexMmap::save_posting_headers
save_posting_headers(mmap, postings, total_posting_headers_size, le) ==
    SavePostingHeadersFrom(mmap, postings, 0, total_posting_headers_size, le)

\* the loop of save_posting_elements from posting list id on
RECURSIVE SavePostingElementsFrom(_, _, _, _, _)
SavePostingElementsFrom(mmap, postings, id, offset, le) ==
    IF id >= Len(postings) THEN mmap
    ELSE LET posting_elements_bytes == transmute_to_u8_slice(postings[id + 1], le)
         IN SavePostingElementsFrom(CopyFromSlice(mmap, offset, posting_elements_bytes),
                                    postings, id + 1, offset + Len(posting_elements_bytes), le)

\* InvertedIndexMmap::save_posting_elements
save_posting_elements(mmap, postings, total_posting_headers_size, le) ==
    SavePostingElementsFrom(mmap, postings, 0, total_posting_headers_size, le)

\* InvertedIndexMmap::convert_and_save: the two files of the directory and
\* the index returned; the map of the index is the file index.data
convert_and_save(postings, file, le) ==
    LET sizes == calculate_file_length(postings)
        sized == Unwrap(create_and_ensure_length(file, sizes.headers + sizes.elements))
        with_headers == save_posting_headers(sized, postings, sizes.headers, le)
        with_elements == save_posting_elements(with_headers, postings, sizes.headers, le)
    IN [index_data |-> Some(with_elements),
        index_config |-> Some(Len(postings)),
        index |-> Some([posting_count |-> Len(postings), origin |-> "convert_and_save"])]

\* InvertedIndexMmap::open_read_mmap: opens with create(true), so a missing
\* file is created empty
open_read_mmap(file) == IF IsSome(file) THEN file ELSE Some(<<>>)

\* InvertedIndexMmap::load: the file index.data after the call and the index
\* returned, None for Err
load(file, config) ==
    [index_data |-> open_read_mmap(file),
     index |-> IF IsSome(config)
               THEN Some([posting_count |-> Unwrap(config), origin |-> "load"])
               ELSE None]

\* InvertedIndexMmap::get: absent, the elements, or a panic of a slice index
InvertedIndexMmap_get(mmap, posting_count, id, le) ==
    IF id > posting_count THEN [outcome |-> "none", elements |-> <<>>]
    ELSE IF (id + 1) * POSTING_HEADER_SIZE > Len(mmap)
    THEN [outcome |-> "panic", elements |-> <<>>]
    ELSE LET header == HeaderFromBytes(SubSeq(mmap, id * POSTING_HEADER_SIZE + 1,
                                              (id + 1) * POSTING_HEADER_SIZE), le)
         IN IF header.start_offset > header.end_offset \/ header.end_offset > Len(mmap)
            THEN [outcome |-> "panic", elements |-> <<>>]
            ELSE [outcome |-> "some",
                  elements |-> transmute_from_u8_to_slice(
                                   SubSeq(mmap, header.start_offset + 1, header.end_offset), le)]

----------------------------------------------------------------------------
(* Values the groups of variables hold while a specification does not use them *)

StorageIdle ==
    /\ vectors = <<>>
    /\ mutable_index = <<>>
    /\ immutable_index = None
    /\ storage_status = "unused"
    /\ last_add = None

SearchIdle ==
    /\ inverted_index = <<>>
    /\ postings_iterators = <<>>
    /\ query = <<>>
    /\ top = 0
    /\ result_queue = <<>>
    /\ pc = "unused"
    /\ results = <<>>
    /\ skipped = 0
    /\ advanced = <<>>
    /\ prune_calls = <<>>

PostingIdle ==
    /\ builder_elements = <<>>
    /\ built = None
    /\ debug_assertions = FALSE

IterIdle ==
    /\ iter = <<>>
    /\ returned = <<>>

QueueIdle ==
    /\ pq = <<>>
    /\ pushed_values = <<>>

DotIdle ==
    /\ dot_a = <<>>
    /\ dot_b = <<>>
    /\ dot_result = None

CtxIdle ==
    /\ shared_index = <<>>
    /\ ctxs = <<>>

SaveIdle ==
    /\ save_pc = "unused"
    /\ completed = <<>>

BuilderIdle ==
    /\ builder_postings = <<>>
    /\ built_index = None

LoaderIdle ==
    /\ jsonl = <<>>
    /\ preserve_order = FALSE

MoreIdle == QueueIdle /\ DotIdle /\ CtxIdle /\ SaveIdle /\ BuilderIdle /\ LoaderIdle

MmapIdle ==
    /\ inverted_index_ram = <<>>
    /\ index_data = None
    /\ index_config = None
    /\ mmap_index = None
    /\ got = <<>>
    /\ mmap_status = "unused"
    /\ little_endian = TRUE

Scores(candidates) == [i \in 1..Len(candidates) |-> candidates[i].score]

----------------------------------------------------------------------------
(* Spec: one SparseVectorStorage driven through its public operations *)

\* the largest record id handed to SparseVectorStorage::add
MaxVectorId == 1

VectorIds == 0..MaxVectorId

\* the vectors handed to add: strictly ascending indices, any weights
StoredVectors == SparseVectors(Weights, MaxDimId + 1)

\* the weights held by the storage, over all its vectors
EntryCount(vecs) ==
    LET n(i) == IF IsSome(vecs[i]) THEN Len(Unwrap(vecs[i]).indices) ELSE 0
        RECURSIVE Sum(_)
        Sum(i) == IF i = 0 THEN 0 ELSE n(i) + Sum(i - 1)
    IN Sum(Len(vecs))

Init ==
    /\ vectors = <<>>
    /\ mutable_index = MutableSparseVectorIndex_new
    /\ immutable_index = None
    /\ storage_status = "ok"
    /\ last_add = None
    /\ SearchIdle /\ PostingIdle /\ IterIdle /\ MmapIdle /\ MoreIdle

\* SparseVectorStorage::add(vector_id, sparse_vector)
Add ==
    /\ storage_status = "ok"
    /\ \E vector_id \in VectorIds, sparse_vector \in StoredVectors :
           /\ EntryCount(vectors) + Len(sparse_vector.indices) <= MaxIndexEntries
           /\ LET r == SparseVectorStorage_add(vectors, mutable_index, vector_id, sparse_vector)
              IN /\ vectors' = r.vectors
                 /\ mutable_index' = r.mutable_index
                 /\ storage_status' = IF r.panicked THEN "panicked" ELSE "ok"
                 /\ last_add' = Some([vector_id |-> vector_id,
                                      sparse_vector |-> sparse_vector,
                                      existed |-> /\ vector_id < Len(vectors)
                                                  /\ IsSome(vectors[vector_id + 1]),
                                      panicked |-> r.panicked])
    /\ UNCHANGED <<immutable_index, search_vars, posting_vars, iter_vars, mmap_vars, more_vars>>

\* SparseVectorStorage::build_immutable_index()
BuildImmutableIndex ==
    /\ storage_status = "ok"
    /\ LET r == build_immutable_index(vectors, mutable_index, debug_assertions)
       IN IF r.panicked
          THEN /\ storage_status' = "panicked"
               /\ UNCHANGED immutable_index
          ELSE /\ immutable_index' = r.index
               /\ UNCHANGED storage_status
    /\ UNCHANGED <<vectors, mutable_index, last_add, search_vars, posting_vars, iter_vars, mmap_vars, more_vars>>

\* SparseVectorStorage::query_full_scan(limit, &query): takes &self, returns
\* query_full_scan(vectors, limit, query) and changes nothing
QueryFullScan ==
    /\ storage_status = "ok"
    /\ UNCHANGED vars

\* SparseVectorStorage::query_mutable_index(top, &query): takes &self, returns
\* query_mutable_index(vectors, mutable_index, top, query).results, or
\* panics on a candidate that is not stored
QueryMutableIndex ==
    /\ storage_status = "ok"
    /\ \E q \in Queries :
           storage_status' =
               IF QueryMutablePanics(vectors, CandidateIds(mutable_index, q))
               THEN "panicked" ELSE "ok"
    /\ UNCHANGED <<vectors, mutable_index, immutable_index, last_add,
                   search_vars, posting_vars, iter_vars, mmap_vars, more_vars>>

\* SparseVectorStorage::query_immutable_index(top, query): takes &self,
\* returns query_immutable_index(immutable_index, top, query).results, or
\* panics when no immutable index was built
QueryImmutableIndex ==
    /\ storage_status = "ok"
    /\ storage_status' = IF ~IsSome(immutable_index) THEN "panicked" ELSE "ok"
    /\ UNCHANGED <<vectors, mutable_index, immutable_index, last_add,
                   search_vars, posting_vars, iter_vars, mmap_vars, more_vars>>

\* SparseVectorStorage::get(vector_id): takes &self, returns the slot, or
\* panics outside the allocated slots
StorageGet ==
    /\ storage_status = "ok"
    /\ \E vector_id \in VectorIds :
           storage_status' =
               IF SparseVectorStorage_get(vectors, vector_id).panicked
               THEN "panicked" ELSE "ok"
    /\ UNCHANGED <<vectors, mutable_index, immutable_index, last_add,
                   search_vars, posting_vars, iter_vars, mmap_vars, more_vars>>

Next ==
    \/ Add
    \/ BuildImmutableIndex
    \/ StorageGet
    \/ QueryFullScan
    \/ QueryMutableIndex
    \/ QueryImmutableIndex

Spec == Init /\ [][Next]_vars

\* the scores of two result lists agree on their common prefix
CommonPrefixEqual(a, b) ==
    \A i \in 1..Len(a) : i <= Len(b) => a[i].score = b[i].score

NonNegative(v) == \A i \in 1..Len(v.weights) : v.weights[i] >= 0

CorpusNonNegative ==
    \A i \in 1..Len(vectors) : IsSome(vectors[i]) => NonNegative(Unwrap(vectors[i]))

\* C3: with non-negative weights in the corpus and in the query, the scores of
\* the full scan and of the mutable-index query agree at every position of
\* their common prefix, for every query and every K
C3_FullScanMutablePrefix ==
    (storage_status = "ok" /\ CorpusNonNegative) =>
        \A q \in Queries, k \in 1..MaxK :
            NonNegative(q) =>
                /\ ~query_mutable_index(vectors, mutable_index, k, q).panicked
                /\ CommonPrefixEqual(query_full_scan(vectors, k, q),
                                     query_mutable_index(vectors, mutable_index, k, q).results)

\* a state where the full scan returns a zero-score entry after the only
\* entry of the mutable-index query, a record found in the lists of two
\* dimensions of the query
C3_Witness ==
    /\ storage_status = "ok" /\ CorpusNonNegative
    /\ \E q \in Queries :
           /\ NonNegative(q)
           /\ Len(CandidateIdsNoDedup(mutable_index, q)) > Len(CandidateIds(mutable_index, q))
           /\ LET full == query_full_scan(vectors, MaxK, q)
                  mutable == query_mutable_index(vectors, mutable_index, MaxK, q).results
              IN /\ Len(mutable) = 1 /\ Len(full) = 2
                 /\ mutable[1].score >= 2
                 /\ full[1].score = mutable[1].score
                 /\ full[2].score = 0

\* the posting list of dimension d in the immutable index, empty when absent
ImmutablePosting(d) ==
    IF IsSome(immutable_index) /\ IsSome(InvertedIndex_get(Unwrap(immutable_index), d))
    THEN Unwrap(InvertedIndex_get(Unwrap(immutable_index), d))
    ELSE <<>>

\* the stored triples (rid, d, w)
StoredTriples ==
    UNION {{<<i - 1, Unwrap(vectors[i]).indices[j], Unwrap(vectors[i]).weights[j]>> :
              j \in 1..Len(Unwrap(vectors[i]).indices)} :
           i \in {i \in 1..Len(vectors) : IsSome(vectors[i])}}

\* every stored triple is exactly one element of its dimension's list, and
\* every element of every list is a stored triple
BuildComplete ==
    /\ IsSome(immutable_index)
    /\ \A t \in StoredTriples :
           Cardinality({j \in 1..Len(ImmutablePosting(t[2])) :
                            ImmutablePosting(t[2])[j].id = t[1]}) = 1
    /\ \A d \in 0..(Len(Unwrap(immutable_index)) - 1) :
           \A j \in 1..Len(ImmutablePosting(d)) :
               <<ImmutablePosting(d)[j].id, d, ImmutablePosting(d)[j].weight>> \in StoredTriples
    /\ \A t \in StoredTriples :
           \E j \in 1..Len(ImmutablePosting(t[2])) :
               /\ ImmutablePosting(t[2])[j].id = t[1]
               /\ ImmutablePosting(t[2])[j].weight = t[3]

\* C5: after successful adds, a call of build_immutable_index leaves an index
\* in which every stored triple (rid, d, w) is exactly one element (rid, w) of
\* the list of d, and every element of every list is a stored triple
C5_BuildCompleteness ==
    [][BuildImmutableIndex => (storage_status' = "ok" /\ BuildComplete')]_vars

\* the immutable index is the one build_immutable_index makes of the storage
Fresh ==
    /\ storage_status = "ok"
    /\ IsSome(immutable_index)
    /\ immutable_index = build_immutable_index(vectors, mutable_index, debug_assertions).index

\* a built index over two records that share a dimension with different
\* weights, one of them with a second dimension
C5_Witness ==
    /\ Fresh
    /\ Len(vectors) = 2
    /\ \E d \in DimIds : Len(ImmutablePosting(d)) = 2
                         /\ ImmutablePosting(d)[1].weight # ImmutablePosting(d)[2].weight
    /\ \E d \in DimIds : Len(ImmutablePosting(d)) = 1

\* the three query paths return equal score sequences for q and k
ThreeWayEqual(q, k) ==
    LET full == Scores(query_full_scan(vectors, k, q))
        mutable == Scores(query_mutable_index(vectors, mutable_index, k, q).results)
        immutable == Scores(query_immutable_index(immutable_index, k, q).results)
    IN full = mutable /\ mutable = immutable

\* C2: after build_immutable_index, for every query and every K > 0 the score
\* sequences of query_full_scan, query_mutable_index and
\* query_immutable_index are equal in length and at each position
C2_ThreeWayEquivalence ==
    Fresh => \A q \in Queries, k \in 1..MaxK : ThreeWayEqual(q, k)

\* the three paths on non-negative weights, compared on the positions all
\* three result lists have
C2_NonNegativeCommonPrefix ==
    (Fresh /\ CorpusNonNegative) =>
        \A q \in Queries, k \in 1..MaxK :
            NonNegative(q) =>
                /\ CommonPrefixEqual(query_full_scan(vectors, k, q),
                                     query_immutable_index(immutable_index, k, q).results)
                /\ CommonPrefixEqual(query_mutable_index(vectors, mutable_index, k, q).results,
                                     query_immutable_index(immutable_index, k, q).results)

----------------------------------------------------------------------------
(* SpecPosting: a PostingBuilder driven by add calls and one build *)

InitPosting ==
    /\ builder_elements = <<>>
    /\ built = None
    /\ debug_assertions \in BOOLEAN
    /\ StorageIdle /\ SearchIdle /\ IterIdle /\ MmapIdle /\ MoreIdle

\* PostingBuilder::add(id, weight)
PostingBuilderAdd ==
    /\ built = None
    /\ Len(builder_elements) < MaxBuilderAdds
    /\ \E id \in PostingIds, weight \in Weights :
           builder_elements' = PostingBuilder_add(builder_elements, id, weight)
    /\ UNCHANGED <<built, debug_assertions, storage_vars, search_vars, iter_vars, mmap_vars, more_vars>>

\* PostingBuilder::build(self); builder_elements keeps the elements that were added
PostingBuilderBuild ==
    /\ built = None
    /\ built' = Some(PostingBuilder_build(builder_elements, debug_assertions))
    /\ UNCHANGED <<builder_elements, debug_assertions, storage_vars, search_vars, iter_vars, mmap_vars, more_vars>>

\* PostingBuilder::new(): a fresh builder
PostingBuilderNew ==
    /\ built # None
    /\ builder_elements' = <<>>
    /\ built' = None
    /\ UNCHANGED <<debug_assertions, storage_vars, search_vars, iter_vars, mmap_vars, more_vars>>

NextPosting == PostingBuilderAdd \/ PostingBuilderBuild \/ PostingBuilderNew

SpecPosting == InitPosting /\ [][NextPosting]_vars

----------------------------------------------------------------------------
(* SpecIter: one PostingListIterator over a built posting list *)

\* the records (id, weight) of the lists that are iterated: any ids, in
\* ascending order, each with a positive weight
IterRecords ==
    UNION { { [i \in 1..Cardinality(S) |-> <<SortedSeq(S)[i], w[i]>>] :
                w \in [1..Cardinality(S) -> 1..MaxWeight] } : S \in SUBSET PostingIds }

IterLists == { PostingList_from(r, TRUE).elements : r \in IterRecords }

\* the ids an iterator is asked to skip to
SkipTargets == PostingIds \cup {MaxPostingId + 1, U32_MAX}

InitIter ==
    /\ \E l \in IterLists : iter = PostingListIterator_new(l)
    /\ returned = [op |-> "new", from |-> 0, target |-> 0, element |-> None]
    /\ StorageIdle /\ SearchIdle /\ PostingIdle /\ MmapIdle /\ MoreIdle

\* PostingListIterator::next
IterNext ==
    /\ iter' = next(iter).it
    /\ returned' = [op |-> "next", from |-> iter.current_index, target |-> 0,
                    element |-> next(iter).element]
    /\ UNCHANGED <<storage_vars, search_vars, posting_vars, mmap_vars, more_vars>>

\* PostingListIterator::skip_to(id)
IterSkipTo ==
    \E id \in SkipTargets :
        /\ iter' = skip_to(iter, id).it
        /\ returned' = [op |-> "skip_to", from |-> iter.current_index, target |-> id,
                        element |-> skip_to(iter, id).element]
        /\ UNCHANGED <<storage_vars, search_vars, posting_vars, mmap_vars, more_vars>>

\* PostingListIterator::skip_to_end
IterSkipToEnd ==
    /\ iter' = skip_to_end(iter).it
    /\ returned' = [op |-> "skip_to_end", from |-> iter.current_index, target |-> 0,
                    element |-> skip_to_end(iter).element]
    /\ UNCHANGED <<storage_vars, search_vars, posting_vars, mmap_vars, more_vars>>

NextIter == IterNext \/ IterSkipTo \/ IterSkipToEnd

SpecIter == InitIter /\ [][NextIter]_vars

----------------------------------------------------------------------------
(* SpecSearch: search contexts over one inverted index, as the tests of     *)
(* search_context.rs build them: InvertedIndexBuilder over PostingList::from *)

\* the (dimension, record) cells that hold a weight in a searched index
IndexCells == {S \in SUBSET (DimIds \X RecordIds) : Cardinality(S) <= MaxIndexEntries}

\* the records (id, weight) of dimension d, in id order
RecordsOf(cells, w, d) ==
    LET ids == SortedSeq({c[2] : c \in {x \in cells : x[1] = d}})
    IN [i \in 1..Len(ids) |-> <<ids[i], w[<<d, ids[i]>>]>>]

IndexOfCells(cells, w) ==
    InvertedIndexBuilder_build(
        [d \in {c[1] : c \in cells} |-> PostingList_from(RecordsOf(cells, w, d), TRUE).elements])

SearchIndexes ==
    UNION { { IndexOfCells(cells, w) : w \in [cells -> 1..MaxWeight] } : cells \in IndexCells }

InitSearch ==
    /\ inverted_index \in SearchIndexes
    /\ postings_iterators = <<>>
    /\ query = SparseVector_new(<<>>, <<>>)
    /\ top = 0
    /\ result_queue = FixedLengthPriorityQueue_new(1)
    /\ pc = "idle"
    /\ results = <<>>
    /\ skipped = 0
    /\ advanced = <<>>
    /\ prune_calls = <<>>
    /\ StorageIdle /\ PostingIdle /\ IterIdle /\ MmapIdle /\ MoreIdle

\* SearchContext::new(query, top, &inverted_index)
NewSearch ==
    /\ pc = "idle"
    /\ \E q \in Queries, k \in 1..MaxK :
           LET ctx == SearchContext_new(q, k, inverted_index)
           IN /\ postings_iterators' = ctx.postings_iterators
              /\ query' = ctx.query
              /\ top' = ctx.top
              /\ result_queue' = ctx.result_queue
    /\ pc' = "created"
    /\ results' = <<>>
    /\ skipped' = 0
    /\ advanced' = <<>>
    /\ prune_calls' = <<>>
    /\ UNCHANGED <<inverted_index, storage_vars, posting_vars, iter_vars, mmap_vars, more_vars>>

\* search, before its loop: sort_posting_lists_by_len
SearchSort ==
    /\ pc = "created"
    /\ postings_iterators' = sort_posting_lists_by_len(postings_iterators)
    /\ pc' = "advance"
    /\ UNCHANGED <<inverted_index, query, top, result_queue, results, skipped, advanced,
                   prune_calls, storage_vars, posting_vars, iter_vars, mmap_vars, more_vars>>

\* search, one turn of its loop up to the push: advance, then push the
\* candidate or leave the loop
SearchAdvance ==
    /\ pc = "advance"
    /\ LET a == advance(postings_iterators, query)
       IN IF IsSome(a.candidate)
          THEN /\ postings_iterators' = a.postings_iterators
               /\ result_queue' = push(result_queue, Unwrap(a.candidate))
               /\ advanced' = Append(advanced, Unwrap(a.candidate).vector_id)
               /\ pc' = "pushed"
          ELSE /\ pc' = "drain"
               /\ UNCHANGED <<postings_iterators, result_queue, advanced>>
    /\ UNCHANGED <<inverted_index, query, top, results, skipped, prune_calls,
                   storage_vars, posting_vars, iter_vars, mmap_vars, more_vars>>

\* the queue is taken to be full whenever it holds a candidate
PruneDueWhenNonEmpty(queue, k) == queue_len(queue) > 0

\* search: the test that guards the call of prune_longest_posting_list
PruneDue(queue, k) == queue_len(queue) = k

\* search, the rest of the turn: with a full queue, prune_longest_posting_list
SearchPrune ==
    /\ pc = "pushed"
    /\ IF PruneDue(result_queue, top)
       THEN LET pruned == prune_longest_posting_list(
                              postings_iterators, query,
                              Unwrap(queue_top(result_queue)).score)
            IN /\ postings_iterators' = pruned
               /\ skipped' = skipped
                      + pruned[1].posting_list_iterator.current_index
                      - postings_iterators[1].posting_list_iterator.current_index
               /\ prune_calls' = Append(prune_calls,
                      [min_score |-> Unwrap(queue_top(result_queue)).score,
                       queue_len |-> queue_len(result_queue)])
       ELSE UNCHANGED <<postings_iterators, skipped, prune_calls>>
    /\ pc' = "advance"
    /\ UNCHANGED <<inverted_index, query, top, result_queue, results, advanced,
                   storage_vars, posting_vars, iter_vars, mmap_vars, more_vars>>

\* search, after its loop: take the queue and return it as a vector
SearchDrain ==
    /\ pc = "drain"
    /\ results' = into_vec(result_queue)
    /\ result_queue' = FixedLengthPriorityQueue_new(1)
    /\ pc' = "done"
    /\ UNCHANGED <<inverted_index, postings_iterators, query, top, skipped, advanced,
                   prune_calls, storage_vars, posting_vars, iter_vars, mmap_vars, more_vars>>

NextSearch == NewSearch \/ SearchSort \/ SearchAdvance \/ SearchPrune \/ SearchDrain

SpecSearch == InitSearch /\ [][NextSearch]_vars

----------------------------------------------------------------------------
(* SpecMmap: one in-memory index saved to an empty directory, loaded back   *)
(* and read through InvertedIndexMmap::get                                   *)

\* the (dimension, record) cells that hold a weight in a saved index
RamIndexCells == {S \in SUBSET (DimIds \X VectorIds) : Cardinality(S) <= MaxIndexEntries}

\* the in-memory indexes: the builder of inverted_index_ram.rs over
\* PostingList::from
RamIndexOfCells(cells, w) ==
    InvertedIndexRamBuilder_build(
        [d \in {c[1] : c \in cells} |-> PostingList_from(RecordsOf(cells, w, d), TRUE).elements])

RamIndexes ==
    UNION { { RamIndexOfCells(cells, w) : w \in [cells -> Weights] } : cells \in RamIndexCells }

\* the dimension ids asked of get: up to two beyond the largest posting count
GetIds == 0..(MaxDimId + 2)

InitMmap ==
    /\ inverted_index_ram \in RamIndexes
    /\ little_endian \in BOOLEAN
    /\ index_data = None
    /\ index_config = None
    /\ mmap_index = None
    /\ got = <<>>
    /\ mmap_status = "ok"
    /\ StorageIdle /\ SearchIdle /\ PostingIdle /\ IterIdle /\ MoreIdle

\* InvertedIndexMmap::convert_and_save(&inverted_index_ram, path)
ConvertAndSave ==
    /\ mmap_status = "ok"
    /\ \E r \in {convert_and_save(inverted_index_ram, index_data, little_endian)} :
          /\ index_data' = r.index_data
          /\ index_config' = r.index_config
          /\ mmap_index' = r.index
    /\ UNCHANGED <<inverted_index_ram, got, mmap_status, little_endian,
                   storage_vars, search_vars, posting_vars, iter_vars, more_vars>>

\* InvertedIndexMmap::load(path)
Load ==
    /\ mmap_status = "ok"
    /\ \E r \in {load(index_data, index_config)} :
          /\ index_data' = r.index_data
          /\ mmap_index' = r.index
    /\ UNCHANGED <<inverted_index_ram, index_config, got, mmap_status, little_endian,
                   storage_vars, search_vars, posting_vars, iter_vars, more_vars>>

\* InvertedIndexMmap::get(&id) on the index the caller holds
Get ==
    /\ mmap_status = "ok"
    /\ IsSome(mmap_index)
    /\ \E id \in GetIds :
           \E r \in {InvertedIndexMmap_get(Unwrap(index_data), Unwrap(mmap_index).posting_count,
                                         id, little_endian)} :
              /\ got' = Some([id |-> id, origin |-> Unwrap(mmap_index).origin,
                              outcome |-> r.outcome, elements |-> r.elements])
              /\ mmap_status' = IF r.outcome = "panic" THEN "panicked" ELSE "ok"
    /\ UNCHANGED <<inverted_index_ram, index_data, index_config, mmap_index, little_endian,
                   storage_vars, search_vars, posting_vars, iter_vars, more_vars>>

NextMmap ==
    \/ ConvertAndSave
    \/ Load
    \/ Get

SpecMmap == InitMmap /\ [][NextMmap]_vars

----------------------------------------------------------------------------
(* SpecQueue: one FixedLengthPriorityQueue of ScoredCandidates under push   *)

\* the most push calls on one queue
MaxPushes == 4

\* the scores pushed
QueueScores == (-1)..MaxWeight

InitQueue ==
    /\ \E length \in 1..MaxK : pq = FixedLengthPriorityQueue_new(length)
    /\ pushed_values = <<>>
    /\ StorageIdle /\ SearchIdle /\ PostingIdle /\ IterIdle /\ MmapIdle
    /\ DotIdle /\ CtxIdle /\ SaveIdle /\ BuilderIdle /\ LoaderIdle

\* FixedLengthPriorityQueue::push(value); the n-th value pushed has id n - 1
QueuePush ==
    /\ Len(pushed_values) < MaxPushes
    /\ \E score \in QueueScores :
           LET value == ScoredCandidate(score, Len(pushed_values))
           IN /\ pq' = push(pq, value)
              /\ pushed_values' = Append(pushed_values, value)
    /\ UNCHANGED <<storage_vars, search_vars, posting_vars, iter_vars, mmap_vars,
                   dot_vars, ctx_vars, save_vars,
                   builder_vars, loader_vars>>

\* FixedLengthPriorityQueue::top(): takes &self, returns queue_top(pq)
QueueTop ==
    /\ queue_top(pq) \in {None} \cup {Some(pq.heap[i]) : i \in 1..Len(pq.heap)}
    /\ UNCHANGED vars

\* FixedLengthPriorityQueue::len(): takes &self, returns queue_len(pq)
QueueLen ==
    /\ queue_len(pq) <= pq.length
    /\ UNCHANGED vars

NextQueue ==
    \/ QueuePush
    \/ QueueTop
    \/ QueueLen

SpecQueue == InitQueue /\ [][NextQueue]_vars

----------------------------------------------------------------------------
(* SpecSave: convert_and_save step by step, as a reader of the directory    *)
(* can observe it, with InvertedIndexMmap::load running between the steps.  *)
(* The map of a file is shared: a byte written through the writer's map is  *)
(* the byte a reader's map shows.                                           *)

\* the most saves into the directory
MaxSaves == 2

\* the most weights held by a saved index
MaxSavedEntries == 1

\* the indexes saved
SavedIndexes ==
    UNION { { RamIndexOfCells(cells, w) : w \in [cells -> Weights] } :
            cells \in {S \in RamIndexCells : Cardinality(S) <= MaxSavedEntries} }

\* what a loaded index answers: its posting_count and get(d) for every d
\* below it
Answers(mmap, posting_count, le) ==
    [posting_count |-> posting_count,
     lists |-> [i \in 1..posting_count |-> InvertedIndexMmap_get(mmap, posting_count, i - 1, le)]]

InitSave ==
    /\ inverted_index_ram = <<>>
    /\ little_endian \in BOOLEAN
    /\ index_data = None
    /\ index_config = None
    /\ mmap_index = None
    /\ got = None
    /\ mmap_status = "ok"
    /\ save_pc = "idle"
    /\ completed = <<>>
    /\ StorageIdle /\ SearchIdle /\ PostingIdle /\ IterIdle
    /\ QueueIdle /\ DotIdle /\ CtxIdle /\ BuilderIdle /\ LoaderIdle

\* convert_and_save, up to create_and_ensure_length: the file is given the
\* length of the new index
SaveCreate ==
    /\ save_pc = "idle"
    /\ Len(completed) < MaxSaves
    /\ \E ram \in SavedIndexes :
           LET sizes == calculate_file_length(ram)
           IN /\ inverted_index_ram' = ram
              /\ index_data' = create_and_ensure_length(index_data,
                                                        sizes.headers + sizes.elements)
    /\ save_pc' = "created"
    /\ UNCHANGED <<index_config, mmap_index, got, mmap_status, little_endian, completed,
                   storage_vars, search_vars, posting_vars, iter_vars,
                   queue_vars, dot_vars, ctx_vars,
                   builder_vars, loader_vars>>

\* convert_and_save: save_posting_headers through the writer's map
SaveHeaders ==
    /\ save_pc = "created"
    /\ index_data' = Some(save_posting_headers(
                              Unwrap(index_data), inverted_index_ram,
                              calculate_file_length(inverted_index_ram).headers,
                              little_endian))
    /\ save_pc' = "headers"
    /\ UNCHANGED <<inverted_index_ram, index_config, mmap_index, got, mmap_status,
                   little_endian, completed,
                   storage_vars, search_vars, posting_vars, iter_vars,
                   queue_vars, dot_vars, ctx_vars,
                   builder_vars, loader_vars>>

\* convert_and_save: save_posting_elements through the writer's map
SaveElements ==
    /\ save_pc = "headers"
    /\ index_data' = Some(save_posting_elements(
                              Unwrap(index_data), inverted_index_ram,
                              calculate_file_length(inverted_index_ram).headers,
                              little_endian))
    /\ save_pc' = "elements"
    /\ UNCHANGED <<inverted_index_ram, index_config, mmap_index, got, mmap_status,
                   little_endian, completed,
                   storage_vars, search_vars, posting_vars, iter_vars,
                   queue_vars, dot_vars, ctx_vars,
                   builder_vars, loader_vars>>

\* convert_and_save, its end: atomic_save_json of the posting count
SaveConfig ==
    /\ save_pc = "elements"
    /\ index_config' = Some(Len(inverted_index_ram))
    /\ completed' = Append(completed, inverted_index_ram)
    /\ save_pc' = "idle"
    /\ UNCHANGED <<inverted_index_ram, index_data, mmap_index, got, mmap_status,
                   little_endian,
                   storage_vars, search_vars, posting_vars, iter_vars,
                   queue_vars, dot_vars, ctx_vars,
                   builder_vars, loader_vars>>

\* InvertedIndexMmap::load(path) by a reader, at any point of a save; got is
\* what the index it returns answers
LoadDuringSave ==
    /\ \E r \in {load(index_data, index_config)} :
          /\ index_data' = r.index_data
          /\ mmap_index' = r.index
          /\ got' = IF IsSome(r.index)
                    THEN Some(Answers(Unwrap(r.index_data), Unwrap(r.index).posting_count,
                                      little_endian))
                    ELSE None
    /\ UNCHANGED <<inverted_index_ram, index_config, mmap_status, little_endian,
                   save_vars,
                   storage_vars, search_vars, posting_vars, iter_vars,
                   queue_vars, dot_vars, ctx_vars,
                   builder_vars, loader_vars>>

NextSave ==
    \/ SaveCreate
    \/ SaveHeaders
    \/ SaveElements
    \/ SaveConfig
    \/ LoadDuringSave

SpecSave == InitSave /\ [][NextSave]_vars

----------------------------------------------------------------------------
(* SpecConcurrent: two SearchContexts borrowing one inverted index, their   *)
(* search steps interleaved                                                 *)

\* the largest dimension id of the shared index and of the two queries
MaxSharedDimId == 1

\* the largest number of weights held by the shared index
MaxSharedEntries == 2

Contexts == 1..2

SharedIndexes ==
    UNION { { IndexOfCells(cells, w) : w \in [cells -> 1..MaxWeight] } :
            cells \in {S \in IndexCells : /\ Cardinality(S) <= MaxSharedEntries
                                          /\ \A c \in S : c[1] <= MaxSharedDimId} }

SharedQueries == SparseVectors({1}, MaxSharedDimId + 1)

\* a context before SearchContext::new
NoContext ==
    [postings_iterators |-> <<>>,
     query |-> SparseVector_new(<<>>, <<>>),
     top |-> 0,
     result_queue |-> FixedLengthPriorityQueue_new(1),
     pc |-> "idle",
     results |-> <<>>]

\* every context pushes to the result queue of the first one
ResultQueueOfFirst(c) == 1

\* the context whose result_queue field a step of context c uses: its own
ResultQueueOf(c) == c

InitConcurrent ==
    /\ shared_index \in SharedIndexes
    /\ ctxs = [c \in Contexts |-> NoContext]
    /\ StorageIdle /\ SearchIdle /\ PostingIdle /\ IterIdle /\ MmapIdle
    /\ QueueIdle /\ DotIdle /\ SaveIdle /\ BuilderIdle /\ LoaderIdle

\* SearchContext::new(query, top, &shared_index) for context c
CtxNew(c) ==
    /\ ctxs[c].pc = "idle"
    /\ \E q \in SharedQueries, k \in 1..MaxK :
           LET ctx == SearchContext_new(q, k, shared_index)
           IN ctxs' = [ctxs EXCEPT
                  ![c].postings_iterators = ctx.postings_iterators,
                  ![c].query = ctx.query,
                  ![c].top = ctx.top,
                  ![c].pc = "created",
                  ![ResultQueueOf(c)].result_queue = ctx.result_queue]
    /\ UNCHANGED <<shared_index, storage_vars, search_vars, posting_vars, iter_vars,
                   mmap_vars, queue_vars, dot_vars, save_vars,
                   builder_vars, loader_vars>>

\* search of context c, before its loop: sort_posting_lists_by_len
CtxSort(c) ==
    /\ ctxs[c].pc = "created"
    /\ ctxs' = [ctxs EXCEPT
           ![c].postings_iterators = sort_posting_lists_by_len(@),
           ![c].pc = "advance"]
    /\ UNCHANGED <<shared_index, storage_vars, search_vars, posting_vars, iter_vars,
                   mmap_vars, queue_vars, dot_vars, save_vars,
                   builder_vars, loader_vars>>

\* search of context c, one turn of its loop up to the push
CtxAdvance(c) ==
    /\ ctxs[c].pc = "advance"
    /\ LET a == advance(ctxs[c].postings_iterators, ctxs[c].query)
       IN IF IsSome(a.candidate)
          THEN ctxs' = [ctxs EXCEPT
                   ![c].postings_iterators = a.postings_iterators,
                   ![c].pc = "pushed",
                   ![ResultQueueOf(c)].result_queue = push(@, Unwrap(a.candidate))]
          ELSE ctxs' = [ctxs EXCEPT ![c].pc = "drain"]
    /\ UNCHANGED <<shared_index, storage_vars, search_vars, posting_vars, iter_vars,
                   mmap_vars, queue_vars, dot_vars, save_vars,
                   builder_vars, loader_vars>>

\* search of context c, the rest of the turn: prune_longest_posting_list
\* when the queue is full
CtxPrune(c) ==
    /\ ctxs[c].pc = "pushed"
    /\ LET queue == ctxs[ResultQueueOf(c)].result_queue
       IN IF queue_len(queue) = ctxs[c].top
          THEN ctxs' = [ctxs EXCEPT
                   ![c].postings_iterators =
                       prune_longest_posting_list(
                           @, ctxs[c].query, Unwrap(queue_top(queue)).score),
                   ![c].pc = "advance"]
          ELSE ctxs' = [ctxs EXCEPT ![c].pc = "advance"]
    /\ UNCHANGED <<shared_index, storage_vars, search_vars, posting_vars, iter_vars,
                   mmap_vars, queue_vars, dot_vars, save_vars,
                   builder_vars, loader_vars>>

\* search of context c, after its loop: take the queue, return it as a vector
CtxDrain(c) ==
    /\ ctxs[c].pc = "drain"
    /\ ctxs' = [ctxs EXCEPT
           ![c].results = into_vec(ctxs[ResultQueueOf(c)].result_queue),
           ![c].pc = "done",
           ![ResultQueueOf(c)].result_queue = FixedLengthPriorityQueue_new(1)]
    /\ UNCHANGED <<shared_index, storage_vars, search_vars, posting_vars, iter_vars,
                   mmap_vars, queue_vars, dot_vars, save_vars,
                   builder_vars, loader_vars>>

NextConcurrent ==
    \E c \in Contexts :
        CtxNew(c) \/ CtxSort(c) \/ CtxAdvance(c) \/ CtxPrune(c) \/ CtxDrain(c)

SpecConcurrent == InitConcurrent /\ [][NextConcurrent]_vars

----------------------------------------------------------------------------
(* SpecSearchDeep: the steps of SpecSearch over indexes of two dimensions   *)
(* that hold more weights, so that a pruned head list keeps elements        *)

\* the number of weights held by an index of SpecSearchDeep
DeepIndexEntries == 4

DeepIndexes ==
    UNION { { IndexOfCells(cells, w) : w \in [cells -> 1..MaxWeight] } :
            cells \in {S \in SUBSET ((0..MaxSharedDimId) \X RecordIds) :
                           Cardinality(S) = DeepIndexEntries} }

InitSearchDeep ==
    /\ inverted_index \in DeepIndexes
    /\ postings_iterators = <<>>
    /\ query = SparseVector_new(<<>>, <<>>)
    /\ top = 0
    /\ result_queue = FixedLengthPriorityQueue_new(1)
    /\ pc = "idle"
    /\ results = <<>>
    /\ skipped = 0
    /\ advanced = <<>>
    /\ prune_calls = <<>>
    /\ StorageIdle /\ PostingIdle /\ IterIdle /\ MmapIdle /\ MoreIdle

SpecSearchDeep == InitSearchDeep /\ [][NextSearch]_vars

----------------------------------------------------------------------------
(* SpecSearchLive: the steps of SpecSearch over the indexes of              *)
(* SpecConcurrent, where a search that was created runs its loop to the end *)
(* without waiting: search is one call                                      *)

InitSearchLive ==
    /\ inverted_index \in SharedIndexes
    /\ postings_iterators = <<>>
    /\ query = SparseVector_new(<<>>, <<>>)
    /\ top = 0
    /\ result_queue = FixedLengthPriorityQueue_new(1)
    /\ pc = "idle"
    /\ results = <<>>
    /\ skipped = 0
    /\ advanced = <<>>
    /\ prune_calls = <<>>
    /\ StorageIdle /\ PostingIdle /\ IterIdle /\ MmapIdle /\ MoreIdle

\* the steps of one call of search
SearchStep == SearchSort \/ SearchAdvance \/ SearchPrune \/ SearchDrain

SpecSearchLive == InitSearchLive /\ [][NextSearch]_vars /\ WF_vars(SearchStep)

----------------------------------------------------------------------------
(* SpecBuilder: an InvertedIndexBuilder filled by add and built, by the     *)
(* build of inverted_index.rs and by the build of inverted_index_ram.rs     *)

\* the posting lists given to add
BuilderPostingLists ==
    {PostingList_from(records, TRUE).elements :
        records \in {<<>>, <<<<0, 1>>>>, <<<<0, 2>>, <<1, 1>>>>}}

\* HashMap::insert
HashMapInsert(map, key, value) ==
    [k \in (DOMAIN map) \cup {key} |-> IF k = key THEN value ELSE map[k]]

InitBuilder ==
    /\ builder_postings = <<>>
    /\ built_index = None
    /\ StorageIdle /\ SearchIdle /\ PostingIdle /\ IterIdle /\ MmapIdle
    /\ QueueIdle /\ DotIdle /\ CtxIdle /\ SaveIdle /\ LoaderIdle

\* InvertedIndexBuilder::add(id, posting), the same in both files
BuilderAdd ==
    /\ \E id \in DimIds, posting \in BuilderPostingLists :
           builder_postings' = HashMapInsert(builder_postings, id, posting)
    /\ UNCHANGED <<built_index, storage_vars, search_vars, posting_vars, iter_vars,
                   mmap_vars, queue_vars, dot_vars, ctx_vars, save_vars, loader_vars>>

\* InvertedIndexBuilder::build of inverted_index.rs; it removes every posting
\* from the map
BuilderBuild ==
    /\ built_index' = Some([by |-> "inverted_index.rs",
                            from |-> builder_postings,
                            postings |-> InvertedIndexBuilder_build(builder_postings)])
    /\ builder_postings' = <<>>
    /\ UNCHANGED <<storage_vars, search_vars, posting_vars, iter_vars,
                   mmap_vars, queue_vars, dot_vars, ctx_vars, save_vars, loader_vars>>

\* InvertedIndexBuilder::build of inverted_index_ram.rs; it removes every
\* posting from the map
BuilderRamBuild ==
    /\ built_index' = Some([by |-> "inverted_index_ram.rs",
                            from |-> builder_postings,
                            postings |-> InvertedIndexRamBuilder_build(builder_postings)])
    /\ builder_postings' = <<>>
    /\ UNCHANGED <<storage_vars, search_vars, posting_vars, iter_vars,
                   mmap_vars, queue_vars, dot_vars, ctx_vars, save_vars, loader_vars>>

NextBuilder == BuilderAdd \/ BuilderBuild \/ BuilderRamBuild

SpecBuilder == InitBuilder /\ [][NextBuilder]_vars

----------------------------------------------------------------------------
(* SpecLoader: load_SPLADE_embeddings on a file of JSON objects, one per    *)
(* line, then add with vectors built by SparseVector::new.  A key of an     *)
(* object is the sequence of its decimal digits.                            *)

\* the largest number of lines of the file
MaxLines == 2

\* the largest number of keys of one object, and of entries given to new
MaxKeys == 2

\* the keys: one or two digits, leading zeros included, naming a dimension
\* of the model
Keys == {<<d>> : d \in DimIds} \cup {<<0, d>> : d \in DimIds}

\* str::parse::<u32> of a string of decimal digits
RECURSIVE ParseU32(_)
ParseU32(key) ==
    IF Len(key) = 0 THEN 0
    ELSE 10 * ParseU32(SubSeq(key, 1, Len(key) - 1)) + key[Len(key)]

\* the order of String: byte by byte, a proper prefix first
RECURSIVE StringLess(_, _)
StringLess(a, b) ==
    IF Len(b) = 0 THEN FALSE
    ELSE IF Len(a) = 0 THEN TRUE
    ELSE IF a[1] # b[1] THEN a[1] < b[1]
    ELSE StringLess(Tail(a), Tail(b))

\* the keys of an object in the order of a BTreeMap<String, Value>
RECURSIVE KeysInStringOrder(_)
KeysInStringOrder(S) ==
    IF S = {} THEN <<>>
    ELSE LET first == CHOOSE k \in S : \A other \in S \ {k} : StringLess(k, other)
         IN <<first>> \o KeysInStringOrder(S \ {first})

\* the objects of a line: their keys in the order of the file, each with
\* the value 1.0
Objects ==
    {keys \in UNION {[1..n -> Keys] : n \in 0..MaxKeys} :
        \A i, j \in 1..Len(keys) : i # j => keys[i] # keys[j]}

\* the iteration of serde_json::Map: the order of the file when serde_json
\* is built with preserve_order, the order of the key strings otherwise
MapIter(object, po) ==
    IF po THEN object ELSE KeysInStringOrder({object[i] : i \in 1..Len(object)})

\* the vector made of one object: indices parsed from the keys in iteration
\* order, values converted to f32
VectorOfObject(object, po) ==
    LET keys == MapIter(object, po)
    IN SparseVector_new([i \in 1..Len(keys) |-> ParseU32(keys[i])],
                        [i \in 1..Len(keys) |-> 1])

\* the loop of load_SPLADE_embeddings over the remaining lines
RECURSIVE LoadLines(_, _, _, _, _)
LoadLines(vecs, map, lines, internal_index, po) ==
    IF Len(lines) = 0 THEN [vectors |-> vecs, mutable_index |-> map, panicked |-> FALSE]
    ELSE LET r == SparseVectorStorage_add(vecs, map, internal_index,
                                          VectorOfObject(lines[1], po))
         IN IF r.panicked THEN r
            ELSE LoadLines(r.vectors, r.mutable_index, Tail(lines), internal_index + 1, po)

\* load_SPLADE_embeddings
load_SPLADE_embeddings(lines, po) ==
    LoadLines(<<>>, MutableSparseVectorIndex_new, lines, 0, po)

\* the arguments given to SparseVector::new: any indices, any weights
NewIndices == UNION {[1..n -> DimIds] : n \in 0..MaxKeys}
NewWeights == UNION {[1..n -> {1}] : n \in 0..MaxKeys}

InitLoader ==
    /\ jsonl \in UNION {[1..n -> Objects] : n \in 0..MaxLines}
    /\ preserve_order \in BOOLEAN
    /\ vectors = <<>>
    /\ mutable_index = MutableSparseVectorIndex_new
    /\ immutable_index = None
    /\ storage_status = "unloaded"
    /\ last_add = None
    /\ SearchIdle /\ PostingIdle /\ IterIdle /\ MmapIdle
    /\ QueueIdle /\ DotIdle /\ CtxIdle /\ SaveIdle /\ BuilderIdle

\* SparseVectorStorage::load_SPLADE_embeddings(path)
LoadEmbeddings ==
    /\ storage_status = "unloaded"
    /\ \E r \in {load_SPLADE_embeddings(jsonl, preserve_order)} :
          /\ vectors' = r.vectors
          /\ mutable_index' = r.mutable_index
          /\ storage_status' = IF r.panicked THEN "panicked" ELSE "ok"
    /\ UNCHANGED <<immutable_index, last_add, loader_vars, search_vars, posting_vars,
                   iter_vars, mmap_vars, queue_vars, dot_vars, ctx_vars, save_vars,
                   builder_vars>>

\* storage.add(vector_id, SparseVector::new(indices, weights)) on the loaded
\* storage, with the next free id
AddNew ==
    /\ storage_status = "ok"
    /\ Len(vectors) <= MaxLines
    /\ \E indices \in NewIndices, weights \in NewWeights :
          \E r \in {SparseVectorStorage_add(vectors, mutable_index, Len(vectors),
                                            SparseVector_new(indices, weights))} :
             /\ vectors' = r.vectors
             /\ mutable_index' = r.mutable_index
             /\ storage_status' = IF r.panicked THEN "panicked" ELSE "ok"
             /\ last_add' = Some([vector_id |-> Len(vectors),
                                  sparse_vector |-> SparseVector_new(indices, weights),
                                  existed |-> FALSE,
                                  panicked |-> r.panicked])
    /\ UNCHANGED <<immutable_index, loader_vars, search_vars, posting_vars,
                   iter_vars, mmap_vars, queue_vars, dot_vars, ctx_vars, save_vars,
                   builder_vars>>

NextLoader == LoadEmbeddings \/ AddNew

SpecLoader == InitLoader /\ [][NextLoader]_vars

----------------------------------------------------------------------------
(* SpecDot: SparseVector::dot_product on two vectors of ascending indices   *)

InitDot ==
    /\ dot_a \in StoredVectors
    /\ dot_b \in StoredVectors
    /\ dot_result = None
    /\ StorageIdle /\ SearchIdle /\ PostingIdle /\ IterIdle /\ MmapIdle
    /\ QueueIdle /\ CtxIdle /\ SaveIdle /\ BuilderIdle /\ LoaderIdle

\* dot_a.dot_product(&dot_b)
DotProduct ==
    /\ dot_result = None
    /\ dot_result' = Some(dot_product(dot_a, dot_b))
    /\ UNCHANGED <<dot_a, dot_b, storage_vars, search_vars, posting_vars, iter_vars,
                   mmap_vars, queue_vars, ctx_vars, save_vars,
                   builder_vars, loader_vars>>

NextDot == DotProduct

SpecDot == InitDot /\ [][NextDot]_vars

----------------------------------------------------------------------------
(* Properties of PostingBuilder::build (SpecPosting) *)

SetMax(S) == CHOOSE x \in S : \A y \in S : y <= x

StrictlyAscendingIds(elements) ==
    \A i \in 1..Len(elements) - 1 : elements[i].id < elements[i + 1].id

\* a list was built (build returned instead of panicking)
BuiltList == IF IsSome(built) /\ ~Unwrap(built).panicked THEN Some(Unwrap(built).elements) ELSE None

AddedIdsDistinct ==
    \A i, j \in 1..Len(builder_elements) :
        i # j => builder_elements[i].id # builder_elements[j].id

\* C6 as stated: every list that build produces, for any sequence of add
\* calls, has strictly ascending ids
C6_AnyAddsStrictlyAscending ==
    IsSome(BuiltList) => StrictlyAscendingIds(Unwrap(BuiltList))

\* C6 amended: every list that build produces from add calls with pairwise
\* distinct ids, in any order, has strictly ascending ids; with a repeated id
\* a debug build panics in build and produces no list, and a release build
\* produces a list that holds the repeated id twice
C6_DistinctAddsStrictlyAscending ==
    IsSome(built) =>
        /\ AddedIdsDistinct =>
               /\ IsSome(BuiltList)
               /\ StrictlyAscendingIds(Unwrap(BuiltList))
               /\ Len(Unwrap(BuiltList)) = Len(builder_elements)
        /\ (~AddedIdsDistinct /\ debug_assertions) => Unwrap(built).panicked
        /\ (~AddedIdsDistinct /\ ~debug_assertions) =>
               /\ IsSome(BuiltList)
               /\ ~StrictlyAscendingIds(Unwrap(BuiltList))

\* a list of three elements built from adds that were not in id order
C6_Witness ==
    /\ IsSome(BuiltList)
    /\ Len(Unwrap(BuiltList)) = 3
    /\ AddedIdsDistinct
    /\ builder_elements[1].id > builder_elements[2].id
    /\ builder_elements[3].id < builder_elements[2].id

\* C7: in every list that build produces, max_next_weight[i] is the maximum
\* of weight[j] over j > i, and negative infinity for the last element
C7_MaxNextWeightCorrect ==
    IsSome(BuiltList) =>
        LET l == Unwrap(BuiltList)
        IN \A i \in 1..Len(l) :
               l[i].max_next_weight =
                   IF i = Len(l) THEN NEG_INFINITY
                   ELSE SetMax({l[j].weight : j \in (i + 1)..Len(l)})

\* a built list of three elements whose first max_next_weight comes from the
\* last element and not from the next one
C7_Witness ==
    /\ IsSome(BuiltList)
    /\ Len(Unwrap(BuiltList)) = 3
    /\ Unwrap(BuiltList)[2].weight < Unwrap(BuiltList)[3].weight
    /\ Unwrap(BuiltList)[1].weight > Unwrap(BuiltList)[3].weight
    /\ Unwrap(BuiltList)[1].max_next_weight = Unwrap(BuiltList)[3].weight

----------------------------------------------------------------------------
(* Properties of PostingListIterator::skip_to (SpecIter) *)

\* 0-based positions at or after `from` whose element satisfies P
PositionsFrom(l, from, P(_)) == {j \in from..(Len(l) - 1) : P(l[j + 1])}

SetMin(S) == CHOOSE x \in S : \A y \in S : x <= y

\* C8: skip_to(target) from any cursor over a strictly ascending list moves
\* the cursor to the element with id = target when one exists at or after the
\* cursor and returns it; otherwise it moves the cursor to the first remaining
\* element with id > target (the end if none) and returns absent; the cursor
\* never moves backward
C8_SkipToContract ==
    returned.op = "skip_to" =>
        LET l == iter.posting_list
            c == iter.current_index
            IsTarget(e) == e.id = returned.target
            IsAbove(e) == e.id > returned.target
            hits == PositionsFrom(l, returned.from, IsTarget)
            above == PositionsFrom(l, returned.from, IsAbove)
        IN /\ c >= returned.from
           /\ hits # {} =>
                  /\ c \in hits
                  /\ returned.element = Some(l[c + 1])
           /\ hits = {} =>
                  /\ returned.element = None
                  /\ c = IF above = {} THEN Len(l) ELSE SetMin(above)

\* a skip_to from a cursor past the start that found its target two or more
\* elements ahead
C8_Witness ==
    /\ returned.op = "skip_to"
    /\ returned.from >= 1
    /\ IsSome(returned.element)
    /\ iter.current_index >= returned.from + 2

----------------------------------------------------------------------------
(* Properties of SearchContext::search (SpecSearch) *)

\* the loop of search with the pruning step left out
RECURSIVE SearchLoopNoPrune(_, _, _)
SearchLoopNoPrune(its, q, queue) ==
    LET a == advance(its, q)
    IN IF ~IsSome(a.candidate) THEN into_vec(queue)
       ELSE SearchLoopNoPrune(a.postings_iterators, q, push(queue, Unwrap(a.candidate)))

SearchNoPrune(q, k, index) ==
    LET ctx == SearchContext_new(q, k, index)
    IN SearchLoopNoPrune(sort_posting_lists_by_len(ctx.postings_iterators),
                         ctx.query, ctx.result_queue)

\* C1: pruning safety: a finished search returns the same top-K scores as
\* the same search over the same index with the pruning step disabled
C1_PruningSafety ==
    pc = "done" => Scores(results) = Scores(SearchNoPrune(query, top, inverted_index))

\* C4: the list a search returns has at most K entries, is ordered by score
\* non-increasing and holds no record id twice
C4_ResultShape ==
    pc = "done" =>
        /\ Len(results) <= top
        /\ \A i \in 1..Len(results) - 1 : results[i].score >= results[i + 1].score
        /\ \A i, j \in 1..Len(results) :
               i # j => results[i].vector_id # results[j].vector_id

\* a finished search with K = 2 over three candidates: the queue was full,
\* the last candidate was pruned away, and two different scores were returned
C4_Witness ==
    /\ pc = "done"
    /\ top = 2
    /\ skipped > 0
    /\ Len(results) = 2
    /\ results[1].score > results[2].score

\* C9: get(d) of the index returned by convert_and_save and of the index
\* returned by a later load returns, for every d below the number N of
\* posting lists of the in-memory index, exactly the elements (id, weight,
\* max_next_weight) of list d, an empty placeholder included
C9_MmapRoundTrip ==
    (IsSome(got) /\ Unwrap(got).id < Len(inverted_index_ram)) =>
        /\ Unwrap(got).outcome = "some"
        /\ Unwrap(got).elements = inverted_index_ram[Unwrap(got).id + 1]

\* get on a loaded index returned a list of two elements, one of negative
\* weight, that lies behind an empty placeholder in the file
C9_Witness ==
    /\ IsSome(got)
    /\ Unwrap(got).origin = "load"
    /\ Unwrap(got).outcome = "some"
    /\ Unwrap(got).id < Len(inverted_index_ram)
    /\ Len(Unwrap(got).elements) = 2
    /\ \E i \in 1..2 : Unwrap(got).elements[i].weight < 0
    /\ \E d \in 0..(Unwrap(got).id - 1) : inverted_index_ram[d + 1] = <<>>

\* C10: get(d) returns absent for every d at or above the recorded
\* posting_count N, d = N included, and reads no header outside the table
C10_GetBeyondAbsent ==
    (IsSome(got) /\ Unwrap(got).id >= Len(inverted_index_ram)) =>
        Unwrap(got).outcome = "none"

----------------------------------------------------------------------------
(* Properties of FixedLengthPriorityQueue (SpecQueue) *)

\* the number of kept or pushed values of score x
CountScore(values, x) == Cardinality({i \in 1..Len(values) : values[i].score = x})

\* the number of pushed values of a score above x
CountAbove(values, x) == Cardinality({i \in 1..Len(values) : values[i].score > x})

\* the values of score x among the K greatest of the values pushed
ExpectedKept(values, K, x) ==
    LET room == K - CountAbove(values, x)
    IN IF room <= 0 THEN 0
       ELSE IF CountScore(values, x) < room THEN CountScore(values, x) ELSE room

\* C11: after n pushes on a queue of capacity K > 0, len() is min(n, K), the
\* kept scores are the K greatest pushed scores as a multiset, and top() is
\* the smallest kept score, absent only for the empty queue
C11_BoundedTopK ==
    pq # <<>> =>
        LET n == Len(pushed_values)
            K == pq.length
        IN /\ queue_len(pq) = IF n < K THEN n ELSE K
           /\ \A x \in QueueScores :
                  CountScore(pq.heap, x) = ExpectedKept(pushed_values, K, x)
           /\ IsSome(queue_top(pq)) <=> n > 0
           /\ n > 0 =>
                  /\ \E i \in 1..Len(pq.heap) : pq.heap[i] = Unwrap(queue_top(pq))
                  /\ \A i \in 1..Len(pq.heap) : Unwrap(queue_top(pq)).score <= pq.heap[i].score

\* a queue of capacity 2 after four pushes, of which one was kept in place of
\* an earlier one and one was rejected for a tie with the minimum
C11_Witness ==
    /\ pq # <<>>
    /\ pq.length = 2
    /\ Len(pushed_values) = 4
    /\ pushed_values[3].score > pushed_values[1].score
    /\ pushed_values[3].score > pushed_values[2].score
    /\ pushed_values[4].score = Unwrap(queue_top(pq)).score
    /\ \A i \in 1..Len(pq.heap) : pq.heap[i].vector_id # 3

----------------------------------------------------------------------------
(* Properties of SparseVectorStorage::add and build_immutable_index (Spec) *)

\* C12: add(rid, v) panics exactly when a vector was already added under
\* rid; for any other rid, in any order of ids, it succeeds and get(rid)
\* then returns v
C12_AddPanicsIffDuplicate ==
    IsSome(last_add) =>
        LET a == Unwrap(last_add)
        IN /\ a.panicked <=> a.existed
           /\ (~a.existed /\ storage_status = "ok") =>
                  /\ ~SparseVectorStorage_get(vectors, a.vector_id).panicked
                  /\ SparseVectorStorage_get(vectors, a.vector_id).vector = Some(a.sparse_vector)

\* C13: no add succeeds after build_immutable_index, so whenever the
\* immutable index exists it reflects exactly the vectors of the store
C13_IndexReflectsStore ==
    IsSome(immutable_index) => BuildComplete

----------------------------------------------------------------------------
(* Properties of the traversal of a search (SpecSearch) *)

\* C14: the record ids of the candidates that the advance calls of one
\* search return are strictly ascending, pruning steps in between included
C14_AdvanceStrictlyAscending ==
    \A i \in 1..(Len(advanced) - 1) : advanced[i] < advanced[i + 1]

\* a candidate was returned after the head list was pruned behind an
\* earlier one
C14_Witness ==
    /\ Len(advanced) = 2
    /\ skipped > 0
    /\ pc = "pushed"

\* the sequence s without its position i
RemoveAt(s, i) == SubSeq(s, 1, i - 1) \o SubSeq(s, i + 1, Len(s))

\* the query q without the dimension at position i
WithoutDimension(q, i) ==
    SparseVector_new(RemoveAt(q.indices, i), RemoveAt(q.weights, i))

\* dimension d has no posting list in the index, or an empty placeholder
NoPostings(index, d) ==
    \/ ~IsSome(InvertedIndex_get(index, d))
    \/ Unwrap(InvertedIndex_get(index, d)) = <<>>

\* C15: a query dimension without posting list in the index (beyond the
\* array, or an empty placeholder) is skipped without error, the search
\* returns what it returns for the query without that dimension, and it
\* returns nothing when no dimension of the query has a non-empty list
C15_MissingDimensionSkipped ==
    pc = "done" =>
        /\ \A i \in 1..Len(query.indices) :
               NoPostings(inverted_index, query.indices[i]) =>
                   results = search(SearchContext_new(WithoutDimension(query, i), top,
                                                      inverted_index))
        /\ (\A i \in 1..Len(query.indices) : NoPostings(inverted_index, query.indices[i]))
               => results = <<>>

\* a finished search with results whose query names a dimension beyond the
\* array of the index and, before the dimensions that score, a placeholder
C15_Witness ==
    /\ pc = "done"
    /\ Len(results) = 2
    /\ \E i \in 1..Len(query.indices) :
           ~IsSome(InvertedIndex_get(inverted_index, query.indices[i]))
    /\ \E i \in 1..Len(query.indices) :
           /\ IsSome(InvertedIndex_get(inverted_index, query.indices[i]))
           /\ NoPostings(inverted_index, query.indices[i])
           /\ i < Len(query.indices)
           /\ ~NoPostings(inverted_index, query.indices[i + 1])

----------------------------------------------------------------------------
(* Properties of saving and loading the mmap index (SpecSave) *)

\* what a load answers after the completed save of the index ram
AnswersOfSave(ram) ==
    [posting_count |-> Len(ram),
     lists |-> [i \in 1..Len(ram) |-> [outcome |-> "some", elements |-> ram[i]]]]

\* C16: at every point of a save, a save over an existing index included, a
\* load that succeeds returns a posting_count and posting lists that come
\* from one completed save
C16_AtomicSave ==
    IsSome(got) => \E i \in 1..Len(completed) : Unwrap(got) = AnswersOfSave(completed[i])

----------------------------------------------------------------------------
(* Properties of SparseVector::dot_product (SpecDot) *)

\* the dimensions of a vector
Dimensions(v) == {v.indices[i] : i \in 1..Len(v.indices)}

\* the weight of a vector of ascending indices at one of its dimensions
WeightAt(v, d) == v.weights[CHOOSE i \in 1..Len(v.indices) : v.indices[i] = d]

\* the sum of a.weight[d] * b.weight[d] over the dimensions d in S
RECURSIVE SumOver(_, _, _)
SumOver(S, a, b) ==
    IF S = {} THEN 0
    ELSE LET d == CHOOSE x \in S : \A y \in S : x <= y
         IN WeightAt(a, d) * WeightAt(b, d) + SumOver(S \ {d}, a, b)

\* C17: for vectors a and b of strictly ascending indices, a.dot_product(b)
\* is the sum of a.weight[d] * b.weight[d] over the dimensions in both, 0
\* when they share none, and equal to b.dot_product(a)
C17_DotProduct ==
    IsSome(dot_result) =>
        LET shared == Dimensions(dot_a) \cap Dimensions(dot_b)
        IN /\ Unwrap(dot_result) = SumOver(shared, dot_a, dot_b)
           /\ shared = {} => Unwrap(dot_result) = 0
           /\ Unwrap(dot_result) = dot_product(dot_b, dot_a)

\* a product over two shared dimensions of vectors that each hold a
\* dimension the other lacks
C17_Witness ==
    /\ IsSome(dot_result)
    /\ Cardinality(Dimensions(dot_a) \cap Dimensions(dot_b)) = 2
    /\ Unwrap(dot_result) # 0
    /\ dot_a # dot_b
    /\ \E i, j \in 1..Len(dot_a.weights) : dot_a.weights[i] # dot_a.weights[j]

----------------------------------------------------------------------------
(* Properties of concurrent searches (SpecConcurrent) *)

\* the result of the search of context c run alone over the index
Alone(c) == search(SearchContext_new(ctxs[c].query, ctxs[c].top, shared_index))

\* C18: no step of a search changes the inverted index, and each of two
\* SearchContexts over one index, their advance and pruning steps interleaved
\* in any order, returns what its search returns when run alone
C18_IndependentContexts ==
    /\ [][shared_index' = shared_index]_vars
    /\ [](\A c \in Contexts : ctxs[c].pc = "done" => ctxs[c].results = Alone(c))

\* both searches are done over different queries, each with results, and
\* the two results differ
C18_Witness ==
    /\ \A c \in Contexts : ctxs[c].pc = "done" /\ Len(ctxs[c].results) > 0
    /\ ctxs[1].query # ctxs[2].query
    /\ ctxs[1].results # ctxs[2].results

----------------------------------------------------------------------------
(* Properties of prune_longest_posting_list within search (SpecSearch) *)

\* the next step of search calls prune_longest_posting_list
PruneCalled == pc = "pushed" /\ queue_len(result_queue) = top

\* C19: at every call of prune_longest_posting_list during a search, the
\* iterator at index 0 has at least as many elements left as every other
\* iterator of the context
C19_HeadLongest ==
    PruneCalled =>
        \A i \in 1..Len(postings_iterators) :
            len_left(postings_iterators[1].posting_list_iterator)
                >= len_left(postings_iterators[i].posting_list_iterator)

\* the record ids the iterator at position i of its still has to return
RemainingIds(its, i) ==
    LET it == its[i].posting_list_iterator
    IN {it.posting_list[n].id : n \in (it.current_index + 1)..Len(it.posting_list)}

\* the record ids of the head list that a call of
\* prune_longest_posting_list on its skips
SkippedIds(its, q, min_score) ==
    RemainingIds(its, 1) \ RemainingIds(prune_longest_posting_list(its, q, min_score), 1)

\* C20: whenever prune_longest_posting_list skips a record id of the head
\* posting list, no iterator at index 1, 2, ... still has that record id
\* among its remaining elements
C20_SkippedOnlyInHead ==
    PruneCalled =>
        \A id \in SkippedIds(postings_iterators, query,
                             Unwrap(queue_top(result_queue)).score) :
            \A i \in 2..Len(postings_iterators) :
                id \notin RemainingIds(postings_iterators, i)

\* the elements the iterator at position i of its still has to return
RemainingElements(its, i) ==
    LET it == its[i].posting_list_iterator
    IN {it.posting_list[n] : n \in (it.current_index + 1)..Len(it.posting_list)}

\* C21: at a call of prune_longest_posting_list where the head iterator peeks
\* an element e, max(e.weight, e.max_next_weight) * query.weights[offset of
\* the head] is at least weight * query.weights[offset] for every element
\* left in the head list, whatever the signs of the weights
C21_ContributionIsUpperBound ==
    (PruneCalled /\ IsSome(peek(postings_iterators[1].posting_list_iterator))) =>
        \A element \in RemainingElements(postings_iterators, 1) :
            ScoreContribution(postings_iterators, query)
                >= element.weight * query.weights[postings_iterators[1].query_weight_offset + 1]

\* what one call of prune_longest_posting_list, made in the current state
\* with the minimum score of the queue, leaves in the next state
PruneEffect ==
    LET its == postings_iterators
        head == its[1].posting_list_iterator
        min_score == Unwrap(queue_top(result_queue)).score
        second == IF Len(its) >= 2 THEN peek(its[2].posting_list_iterator) ELSE None
        skip_target == IF IsSome(second) THEN Unwrap(second).id ELSE U32_MAX
        bound == F32Max(Unwrap(peek(head)).weight, Unwrap(peek(head)).max_next_weight)
                     * query.weights[its[1].query_weight_offset + 1]
    IN /\ result_queue' = result_queue
       /\ Len(postings_iterators') = Len(its)
       /\ \A i \in 2..Len(its) : postings_iterators'[i] = its[i]
       /\ postings_iterators'[1].query_weight_offset = its[1].query_weight_offset
       /\ postings_iterators'[1].posting_list_iterator.posting_list = head.posting_list
       /\ IF IsSome(peek(head)) /\ bound < min_score
          THEN /\ RemainingElements(postings_iterators', 1)
                      = {e \in RemainingElements(its, 1) : e.id >= skip_target}
               /\ postings_iterators'[1].posting_list_iterator.current_index
                      = head.current_index
                        + Cardinality({e \in RemainingElements(its, 1) : e.id < skip_target})
          ELSE postings_iterators' = its

\* C22: one call of prune_longest_posting_list changes nothing when the
\* head's upper-bound contribution is at least the threshold; otherwise it
\* moves the head iterator past exactly its elements with id below the skip
\* target (the id peeked by the iterator at index 1, or the largest id when
\* there is no such iterator or it is exhausted), keeps every head element
\* with id at or above the target, and leaves the other iterators' cursors
\* and the result queue as they were
C22_PruneEffect == [][(SearchPrune /\ PruneCalled) => PruneEffect]_vars

\* a pruning call has skipped elements of the head list and left some of its
\* elements, before the id peeked by the second iterator
C22_Witness ==
    /\ pc = "advance"
    /\ skipped > 0
    /\ Len(postings_iterators) >= 2
    /\ IsSome(peek(postings_iterators[1].posting_list_iterator))
    /\ IsSome(peek(postings_iterators[2].posting_list_iterator))
    /\ Unwrap(peek(postings_iterators[1].posting_list_iterator)).id
           >= Unwrap(peek(postings_iterators[2].posting_list_iterator)).id

\* C23: during a search prune_longest_posting_list is called only with a
\* result queue of exactly top candidates, and the min_score passed to it
\* never decreases from one call to the next
C23_PruneThresholds ==
    /\ \A i \in 1..Len(prune_calls) : prune_calls[i].queue_len = top
    /\ \A i \in 1..(Len(prune_calls) - 1) :
           prune_calls[i].min_score <= prune_calls[i + 1].min_score

\* a search with two calls of the pruning routine, the second with a higher
\* threshold, after a turn without a call
C23_Witness ==
    /\ Len(prune_calls) = 2
    /\ prune_calls[1].min_score < prune_calls[2].min_score
    /\ Len(advanced) > Len(prune_calls)

----------------------------------------------------------------------------
(* Properties of SearchContext::advance (SpecSearch) *)

\* the iterator at position i of its peeks an element
it_has_peek(its, i) == IsSome(peek(its[i].posting_list_iterator))

\* the positions of the iterators of its that peek an element
Peeking(its) == {i \in 1..Len(its) : it_has_peek(its, i)}

\* the sum of element.weight * query weight over the iterators at positions S
RECURSIVE SumOfPeeks(_, _, _)
SumOfPeeks(S, its, q) ==
    IF S = {} THEN 0
    ELSE LET i == CHOOSE x \in S : TRUE
         IN Unwrap(peek(its[i].posting_list_iterator)).weight
                * q.weights[its[i].query_weight_offset + 1]
            + SumOfPeeks(S \ {i}, its, q)

\* what one call of advance, made in the current state, leaves in the next
AdvanceEffect ==
    LET its == postings_iterators
    IN IF Peeking(its) = {}
       THEN /\ pc' = "drain"
            /\ postings_iterators' = its
            /\ advanced' = advanced
       ELSE LET ids == {Unwrap(peek(its[i].posting_list_iterator)).id : i \in Peeking(its)}
                m == CHOOSE x \in ids : \A y \in ids : x <= y
                at_m == {i \in Peeking(its) :
                            Unwrap(peek(its[i].posting_list_iterator)).id = m}
            IN /\ pc' = "pushed"
               /\ advanced' = Append(advanced, m)
               /\ result_queue' =
                      push(result_queue, ScoredCandidate(SumOfPeeks(at_m, its, query), m))
               /\ Len(postings_iterators') = Len(its)
               /\ \A i \in 1..Len(its) :
                      postings_iterators'[i] =
                          [its[i] EXCEPT !.posting_list_iterator.current_index =
                                             IF i \in at_m THEN @ + 1 ELSE @]

\* C24: one advance returns absent exactly when every iterator is exhausted;
\* otherwise it returns the smallest id m peeked by any iterator, with the
\* sum of element.weight * query weight over exactly the iterators peeking m
\* as score, moves each of those iterators by one element and leaves the
\* cursor of every other iterator where it was
C24_AdvanceStep == [][SearchAdvance => AdvanceEffect]_vars

\* the last advance took its candidate from two iterators at once and left a
\* third one, which peeks a larger id, where it was
C24_Witness ==
    /\ pc = "pushed"
    /\ Len(postings_iterators) = 3
    /\ \E i, j, k \in 1..3 :
           /\ i # j
           /\ \A n \in {i, j} :
                  LET it == postings_iterators[n].posting_list_iterator
                  IN /\ it.current_index >= 1
                     /\ it.posting_list[it.current_index].id = advanced[Len(advanced)]
           /\ it_has_peek(postings_iterators, k)
           /\ Unwrap(peek(postings_iterators[k].posting_list_iterator)).id
                  > advanced[Len(advanced)]

----------------------------------------------------------------------------
(* Properties of InvertedIndexBuilder::build (SpecBuilder) *)

\* the largest key of a non-empty map
MaxKey(map) == CHOOSE k \in DOMAIN map : \A j \in DOMAIN map : j <= k

\* C25: built from a non-empty set of added (DimId, PostingList) pairs, the
\* index is a dense array of exactly max_dim_id + 1 lists, position d holding
\* the list added for d and every position of a DimId not added holding an
\* empty list
C25_DenseArray ==
    (IsSome(built_index) /\ DOMAIN Unwrap(built_index).from # {}) =>
        LET from == Unwrap(built_index).from
            postings == Unwrap(built_index).postings
        IN /\ Len(postings) = MaxKey(from) + 1
           /\ \A d \in 0..(Len(postings) - 1) :
                  postings[d + 1] = IF d \in DOMAIN from THEN from[d] ELSE <<>>

----------------------------------------------------------------------------
(* Termination of SearchContext::search (SpecSearchLive) *)

RECURSIVE SumLenLeft(_, _)
SumLenLeft(its, i) ==
    IF i = 0 THEN 0
    ELSE SumLenLeft(its, i - 1) + len_left(its[i].posting_list_iterator)

\* the number of elements left over all iterators
TotalLeft(its) == SumLenLeft(its, Len(its))

RECURSIVE SumLen(_, _)
SumLen(its, i) ==
    IF i = 0 THEN 0
    ELSE SumLen(its, i - 1) + Len(its[i].posting_list_iterator.posting_list)

\* the number of elements of the posting lists the context retained
TotalElements(its) == SumLen(its, Len(its))

\* C26: search terminates: every advance that returns a candidate strictly
\* decreases the number of elements left over all iterators, pruning never
\* increases it, the loop makes at most as many successful advances as the
\* retained posting lists have elements, and a search that was started
\* returns
C26_SearchTerminates ==
    /\ [][(SearchAdvance /\ pc' = "pushed")
              => TotalLeft(postings_iterators') < TotalLeft(postings_iterators)]_vars
    /\ [][SearchPrune
              => TotalLeft(postings_iterators') <= TotalLeft(postings_iterators)]_vars
    /\ [](pc \in {"advance", "pushed", "drain", "done"}
              => Len(advanced) <= TotalElements(postings_iterators))
    /\ (pc = "created" ~> pc = "done")

\* a search that returned after as many advances as its two retained lists
\* hold elements, pruning having been called on the way
C26_Witness ==
    /\ pc = "done"
    /\ Len(postings_iterators) = 2
    /\ Len(advanced) = TotalElements(postings_iterators)
    /\ Len(prune_calls) > 0

----------------------------------------------------------------------------
(* Properties of the vectors held by the storage (SpecLoader) *)

\* C27: every SparseVector held by the store, made by SparseVector::new and
\* add or by the loader, has as many indices as weights and its indices in
\* strictly ascending order
C27_StoredVectorsWellFormed ==
    \A i \in 1..Len(vectors) :
        IsSome(vectors[i]) =>
            LET v == Unwrap(vectors[i])
            IN /\ Len(v.indices) = Len(v.weights)
               /\ \A n \in 1..(Len(v.indices) - 1) : v.indices[n] < v.indices[n + 1]

----------------------------------------------------------------------------
(* Properties of the scores of query_immutable_index (Spec) *)

\* C28: every candidate (score, rid) returned by query_immutable_index on a
\* freshly built index carries the dot product of the query with the stored
\* vector rid, over all the dimensions they share
C28_FullDotProduct ==
    Fresh =>
        \A q \in Queries, k \in 1..MaxK :
            LET found == query_immutable_index(immutable_index, k, q).results
            IN \A i \in 1..Len(found) :
                   /\ found[i].vector_id < Len(vectors)
                   /\ IsSome(vectors[found[i].vector_id + 1])
                   /\ found[i].score
                          = dot_product(q, Unwrap(vectors[found[i].vector_id + 1]))

----------------------------------------------------------------------------
(* Properties of a refused add (Spec) *)

\* C29: an add that panics because its record id is refused has changed
\* neither the vectors of the store nor the mutable index
C29_RejectedAddChangesNothing ==
    [][(Add /\ storage_status' = "panicked")
           => (vectors' = vectors /\ mutable_index' = mutable_index)]_vars

----------------------------------------------------------------------------
(* Properties of InvertedIndexMmap::load without a configuration (SpecMmap) *)

\* C30: load on a directory without index_config.json returns an error, not
\* an index, and creates or changes no file of the directory, index.data
\* included
C30_LoadWithoutConfig ==
    [][(Load /\ ~IsSome(index_config))
           => /\ ~IsSome(mmap_index')
              /\ index_data' = index_data
              /\ index_config' = index_config]_vars

====
